---- MODULE Spec2Model ----
(***************************************************************************)
(* Print-job processing pipeline of the print portal backend: job          *)
(* creation, dispatch to the printer backend, and the per-job status       *)
(* reconciliation (polling) loop, for the CUPS/IPP service                 *)
(* (src/src/modules/prints/prints.service.ts) and the Windows-spooler      *)
(* services (src/unnamed/part_003, part_004, part_005).                   *)
(*                                                                         *)
(* Asynchrony is modelled at the await points of the code: every pending   *)
(* promise / callback (a readiness check, the submit command, an armed     *)
(* timer, a status query in flight, a store write in flight) is a piece of *)
(* state, and one action is the code that runs when it settles.            *)
(***************************************************************************)
EXTENDS Integers, Sequences, FiniteSets, TLC

----------------------------------------------------------------------------
(* Bounds of the model *)

MaxCopies == 2
MaxCount == 1
MaxPages == 200
MaxSheets == 4
MaxEmitCalls == 1
MaxCompleted == 3

\* The submissions followed.  The services keep no state across jobs but the
\* job store, which is keyed by job id, so the pipeline is followed for one
\* submission.
Jobs == {1}

----------------------------------------------------------------------------
(* Values *)

\* An optional value is a sequence: <<>> is JavaScript's undefined / null,
\* <<v>> is the value v.
Undefined == <<>>
Some(v) == <<v>>

\* PrintRequestStatus (CUPS service)
PENDING == "pending"
SENT_TO_PRINTER == "sent-to-printer"
FAILED == "failed"
COMPLETED == "completed"

\* PrintJobStatus (Windows-spooler services)
PROCESSING == "processing"
ABORTED == "aborted"
CANCELED == "canceled"
HELD == "held"

NORMAL == "normal"
BOOKLET == "booklet"
SINGLE == "single-sided"
DOUBLE == "double-sided"
UPRIGHT == "portrait"
SIDEWAYS == "landscape"

VALID_FILE_TYPES ==
  {"pdf", "application/pdf", "doc", "application/msword", "docx",
   "application/vnd.openxmlformats-officedocument.wordprocessingml.document",
   "xlsx", "application/vnd.openxmlformats-officedocument.spreadsheetml.sheet"}

\* Number(text) and parseInt(text) give a number <<n>>, or NaN: no number.
NaN == <<>>
IsNaN(x) == x = NaN

\* job-state values an IPP Get-Job-Attributes response can carry (RFC 8011);
\* the service names only some of them.
IppJobStates ==
  {"pending", "pending-held", "processing", "processing-stopped",
   "canceled", "aborted", "completed"}

\* JobStatus words of the Windows spooler (Get-PrintJob); the services name
\* only some of them.
WinJobStates ==
  {"printing", "completed", "error", "paused", "deleted", "spooling", "retained"}

WinVariants == {"part_004", "part_005"}

\* new Date(): the model keeps no clock, only whether a time was taken.
Now == "now"

TerminalStatuses(v) ==
  IF v = "cups" THEN {FAILED, COMPLETED} ELSE {COMPLETED, ABORTED, CANCELED}

----------------------------------------------------------------------------
VARIABLES
  variant,   \* the service active in this deployment
  prints,    \* the job store: prints[j] is job j's record, or NoPrint
  pc,        \* where createPrint / sendToCups of job j stands
  timers,    \* timers[j]: armed setTimeout(checkStatus, ...) of job j
  queries,   \* queries[j]: status queries of job j in flight
  writes,    \* updatePrintStatus calls in progress
  emitted,   \* emitted[j]: status in the last printUpdate broadcast for j
  lpJobs,    \* number of jobs the backend accepted (its job-id counter)
  handle,    \* handle[j]: the jobId the poll loop of job j was started with
  call,      \* call[j]: the createPrint call of job j: its savedPrint, its end
  imp,       \* the booklet imposition of createPrint (its local variables)
  recon,     \* a call of processJobStatus followed step by step (its locals)
  conn,      \* initializePrinterConnection: attempt, printerConnected, log
  tmp,       \* os.tmpdir() and the createPrint calls converting into it
  spool,     \* the Windows spooler's queues and the sendToPrinter calls using them
  hist       \* hist[j]: what has happened to job j (history)

vars ==
  <<variant, prints, pc, timers, queries, writes, emitted, lpJobs, handle,
    call, imp, recon, conn, tmp, spool, hist>>

NoPrint == [requestStatus |-> "none"]

\* no createPrint call yet
NoCall == [savedPrint |-> NoPrint, result |-> "none"]

\* typed values of the optional request fields sheetsFrom / sheetsTo: absent,
\* a number, or the text of a number (what a multipart form field holds)
Absent == [type |-> "undefined", value |-> 0]
Num(n) == [type |-> "number", value |-> n]
Str(n) == [type |-> "string", value |-> n]

\* concurrent uploads of documents that are no PDF, and the original file
\* names (without extension) they come with
Uploads == {"A", "B"}
Names == {"report", "notes"}

\* no upload under way, os.tmpdir() holds none of the files
NoUploads ==
  [name |-> [u \in Uploads |-> "report"], stage |-> [u \in Uploads |-> "none"],
   buffer |-> [u \in Uploads |-> "none"],
   input |-> [n \in Names |-> "absent"], pdf |-> [n \in Names |-> "absent"]]

\* sendToPrinter calls under way at the same time, and the printers (the
\* printer field of a job) they print to
Submissions == {"A", "B"}
Printers == {"P1", "P2"}

\* no sendToPrinter call under way, every spooler queue empty
NoSpooler ==
  [printer |-> [u \in Submissions |-> "P1"], stage |-> [u \in Submissions |-> "none"],
   queue |-> [p \in Printers |-> <<>>], submitted |-> [p \in Printers |-> 0],
   created |-> [u \in Submissions |-> ""], jobId |-> [u \in Submissions |-> ""]]

\* no processJobStatus call followed
NoReconciliation == [stage |-> "none"]

\* the service before onModuleInit
NoConnection ==
  [stage |-> "none", attempt |-> 0, printerConnected |-> FALSE, checks |-> <<>>,
   waits |-> 0]

\* no booklet imposition under way
NoImposition ==
  [stage |-> "none", pages |-> 0, sheetsFrom |-> Absent, sheetsTo |-> Absent,
   pagesToAdd |-> 0, pageCount |-> 0, newPageOrder |-> <<>>,
   finalPageOrder |-> <<>>, error |-> Undefined]

NoHist ==
  [cupsChecks |-> 0, printerChecks |-> 0, cupsOk |-> FALSE, printerOk |-> FALSE,
   lpRuns |-> 0, monitors |-> 0, termPolled |-> FALSE, queryFailed |-> FALSE,
   pollApplied |-> FALSE, storeError |-> FALSE, failReason |-> Undefined,
   rejection |-> Undefined, notifierThrew |-> FALSE, emitCalls |-> 0,
   lpSides |-> Undefined]

----------------------------------------------------------------------------
(* createPrint *)

\* Text is a sequence of one-character strings, so that the code's pattern
\* match, split and parseInt can be computed.
PagesAll == <<"a", "l", "l">>

Digits == {"0", "1", "2", "3", "4", "5", "6", "7", "8", "9"}

DigitValue(c) ==
  CASE c = "0" -> 0 [] c = "1" -> 1 [] c = "2" -> 2 [] c = "3" -> 3
    [] c = "4" -> 4 [] c = "5" -> 5 [] c = "6" -> 6 [] c = "7" -> 7
    [] c = "8" -> 8 [] c = "9" -> 9

\* the pagesToPrint values submitted: all, a page, page 0, a range, a word
PageSelections ==
  {PagesAll, <<"2">>, <<"0">>, <<"1", "-", "2">>, <<"x">>}

\* the requests submitted (the fields of CreatePrintRequestDto the pipeline
\* depends on; copies is Number(text))
Dtos ==
  [fileType : {"pdf", "docx", "txt"}, pageLayout : {NORMAL, BOOKLET},
   orientation : {UPRIGHT, SIDEWAYS}, sides : {SINGLE, DOUBLE},
   copies : {Some(n) : n \in 0..MaxCopies} \cup {NaN},
   pagesToPrint : PageSelections]

\* @Matches(/^(?:all|\d+)$/)
MatchesAllOrDigits(text) ==
  \/ text = PagesAll
  \/ Len(text) > 0 /\ \A i \in 1..Len(text) : text[i] \in Digits

\* the constraints of CreatePrintRequestDto that fail for a request, as
\* validate(dto) of the controller's create reports them
ValidationErrors(dto) ==
  {f \in {"fileType", "copies", "pagesToPrint"} :
     \/ f = "fileType" /\ dto.fileType \notin VALID_FILE_TYPES
     \/ f = "copies" /\ IsNaN(dto.copies)
     \/ f = "pagesToPrint" /\ ~MatchesAllOrDigits(dto.pagesToPrint)}

\* text.includes('-')
Includes(text, c) == \E i \in 1..Len(text) : text[i] = c

\* the number of decimal digits text starts with
RECURSIVE LeadingDigits(_)
LeadingDigits(text) ==
  IF text = <<>> \/ Head(text) \notin Digits THEN 0
  ELSE 1 + LeadingDigits(Tail(text))

RECURSIVE DecimalValue(_)
DecimalValue(digits) ==
  IF digits = <<>> THEN 0
  ELSE 10 * DecimalValue(SubSeq(digits, 1, Len(digits) - 1))
       + DigitValue(digits[Len(digits)])

\* parseInt(text, 10) of a text without sign or leading blanks
ParseInt(text) ==
  IF LeadingDigits(text) = 0 THEN NaN
  ELSE Some(DecimalValue(SubSeq(text, 1, LeadingDigits(text))))

\* text.split(c)
RECURSIVE Split(_, _)
Split(text, c) ==
  IF ~Includes(text, c) THEN <<text>>
  ELSE LET i == CHOOSE k \in 1..Len(text) :
                  text[k] = c /\ \A m \in 1..(k - 1) : text[m] # c
       IN <<SubSeq(text, 1, i - 1)>> \o Split(SubSeq(text, i + 1, Len(text)), c)

\* the pagesToPrint check of createPrint: TRUE when it throws
InvalidPagesToPrint(text) ==
  IF text = PagesAll THEN FALSE
  ELSE IF Includes(text, "-")
       THEN LET parts == Split(text, "-")
                start == ParseInt(parts[1])
                end == ParseInt(parts[2])
            IN IsNaN(start) \/ IsNaN(end) \/ start[1] < 1 \/ end[1] < start[1]
       ELSE LET page == ParseInt(text)
            IN IsNaN(page) \/ page[1] < 1

\* what createPrint throws before the record is saved, or Undefined: the
\* document is no readable PDF or cannot be converted to one, the page
\* selection is invalid, the copy count is no number or below 1.
CreatePrintError(dto, converted) ==
  IF ~converted
  THEN Some(IF dto.fileType = "pdf" THEN "Invalid PDF file"
            ELSE "Failed to process file for page count")
  ELSE IF InvalidPagesToPrint(dto.pagesToPrint)
       THEN Some("Invalid page to print")
       ELSE IF IsNaN(dto.copies) \/ dto.copies[1] < 1
            THEN Some("Invalid copies number")
            ELSE Undefined

\* BookletOrientation with the orientation stored as requested
BookletOrientationRequested(dto) == dto.orientation

\* booklet mode overrides the requested orientation
BookletOrientation(dto) ==
  IF dto.pageLayout = BOOKLET THEN SIDEWAYS ELSE dto.orientation

\* printData as saved by createPrint
PrintData(dto) ==
  [requestStatus |-> PENDING, pagesPrinted |-> 0,
   employeeId |-> "E1", employeeName |-> "Employee",
   fileName |-> IF dto.fileType = "pdf" THEN "document.pdf" ELSE "document.docx",
   fileType |-> dto.fileType, printer |-> "ricoh-m2701", paperSize |-> "A4",
   copies |-> dto.copies[1], isColor |-> "grayscale",
   sides |-> dto.sides, orientation |-> BookletOrientation(dto),
   pageLayout |-> dto.pageLayout, margins |-> "normal",
   pagesToPrint |-> dto.pagesToPrint, pages |-> 3,
   jobId |-> Undefined, jobStartTime |-> Undefined, jobEndTime |-> Undefined,
   errorMessage |-> Undefined]

\* CreatePrint with the record saved before the request is checked
CreatePrintSavesFirst(j) ==
  /\ pc[j] = "none"
  /\ \E dto \in Dtos, converted \in BOOLEAN :
       LET error == IF ValidationErrors(dto) # {} THEN Some("Validation failed")
                    ELSE CreatePrintError(dto, converted)
       IN /\ prints' = [prints EXCEPT ![j] =
                          PrintData([dto EXCEPT !.copies =
                                       IF IsNaN(@) THEN Some(0) ELSE @])]
          /\ pc' = [pc EXCEPT ![j] = IF error # Undefined THEN "rejected" ELSE "saved"]
          /\ hist' = [hist EXCEPT ![j].rejection = error]
          /\ call' = [call EXCEPT ![j] =
                        IF error # Undefined
                        THEN [savedPrint |-> NoPrint, result |-> "threw"]
                        ELSE [savedPrint |-> PrintData(dto), result |-> "running"]]
  /\ UNCHANGED <<variant, spool, tmp, recon, conn, imp, timers, queries, writes, emitted, lpJobs, handle>>

\* The controller's create and createPrint up to and including the save of
\* the job record.  The request is validated against the DTO; createPrint
\* then reads the document (a document that is not a PDF is converted
\* first), checks the page selection and the copy count, and saves the
\* record; every failure throws before the save.
CreatePrint(j) ==
  /\ pc[j] = "none"
  /\ \A i \in Jobs : i < j => pc[i] # "none"
  /\ \E dto \in Dtos, converted \in BOOLEAN :
       LET error == IF ValidationErrors(dto) # {} THEN Some("Validation failed")
                    ELSE CreatePrintError(dto, converted)
       IN IF error # Undefined
          THEN /\ pc' = [pc EXCEPT ![j] = "rejected"]
               /\ hist' = [hist EXCEPT ![j].rejection = error]
               /\ call' = [call EXCEPT ![j].result = "threw"]
               /\ UNCHANGED prints
          ELSE /\ prints' = [prints EXCEPT ![j] = PrintData(dto)]
               /\ pc' = [pc EXCEPT ![j] = "saved"]
               /\ call' = [call EXCEPT ![j] =
                             [savedPrint |-> PrintData(dto), result |-> "running"]]
               /\ UNCHANGED hist
  /\ UNCHANGED <<variant, spool, tmp, recon, conn, imp, timers, queries, writes, emitted, lpJobs, handle>>

\* createPrint after the save: the document file is written, the created
\* job is broadcast and the dispatch is started without being awaited.  A
\* failed file write, or a broadcast that throws, is caught by createPrint's
\* catch and thrown to the caller: the record stays as saved and the
\* dispatch is not started.  With no temporary file to delete (a PDF) the
\* call then returns savedPrint at once; otherwise it first awaits the
\* deletion of the temporary files.
StoreFile(j) ==
  /\ pc[j] = "saved"
  /\ \E outcome \in {"ok", "writeFailed", "emitThrew"} :
       IF outcome = "ok"
       THEN /\ emitted' = [emitted EXCEPT ![j] = Some(call[j].savedPrint.requestStatus)]
            /\ pc' = [pc EXCEPT ![j] = IF variant = "cups" THEN "checkCups"
                                                          ELSE "checkPrinter"]
            /\ call' = [call EXCEPT ![j].result =
                          IF call[j].savedPrint.fileType = "pdf"
                          THEN "returned" ELSE "running"]
            /\ UNCHANGED hist
       ELSE /\ pc' = [pc EXCEPT ![j] = "createFailed"]
            /\ call' = [call EXCEPT ![j].result = "threw"]
            /\ hist' = [hist EXCEPT ![j].notifierThrew =
                                      @ \/ outcome = "emitThrew"]
            /\ UNCHANGED emitted
  /\ UNCHANGED <<variant, spool, tmp, recon, conn, imp, prints, timers, queries, writes, lpJobs, handle>>

\* CreatePrintReturns with the stored record read back and returned
CreatePrintReturnsStored(j) ==
  /\ call[j].result = "running"
  /\ pc[j] \notin {"none", "saved", "rejected", "createFailed"}
  /\ call' = [call EXCEPT ![j] = [savedPrint |-> prints[j], result |-> "returned"]]
  /\ UNCHANGED <<variant, spool, tmp, recon, conn, imp, prints, pc, timers, queries, writes, emitted, lpJobs, handle, hist>>

\* createPrint: the temporary files are deleted and savedPrint is returned,
\* whatever the dispatch started before has come to meanwhile.
CreatePrintReturns(j) ==
  /\ call[j].result = "running"
  /\ pc[j] \notin {"none", "saved", "rejected", "createFailed"}
  /\ call' = [call EXCEPT ![j].result = "returned"]
  /\ UNCHANGED <<variant, spool, tmp, recon, conn, imp, prints, pc, timers, queries, writes, emitted, lpJobs, handle, hist>>

----------------------------------------------------------------------------
(* createPrint for documents that are no PDF: the temporary files          *)

\* the temporary paths of upload u: tempInputPath is tmpdir/originalname.ext
\* and tempPdfPath is tmpdir/basename.pdf; both are named by the file name
TempPath(u) == tmp.name[u]

\* createPrint: fs.writeFile(tempInputPath, buffer)
WriteTempInput(u) ==
  /\ tmp.stage[u] = "start"
  /\ tmp' = [tmp EXCEPT !.input[TempPath(u)] = u, !.stage[u] = "written"]
  /\ UNCHANGED <<variant, spool, recon, conn, call, imp, prints, pc, timers, queries, writes, emitted, lpJobs, handle, hist>>

\* convertToPdf: the input file is looked up and converted to tempPdfPath
UnoconvToPdf(u) ==
  /\ tmp.stage[u] = "written"
  /\ IF tmp.input[TempPath(u)] = "absent"
     THEN tmp' = [tmp EXCEPT !.stage[u] = "failed"]
     ELSE tmp' = [tmp EXCEPT !.pdf[TempPath(u)] = tmp.input[TempPath(u)],
                             !.stage[u] = "converted"]
  /\ UNCHANGED <<variant, spool, recon, conn, call, imp, prints, pc, timers, queries, writes, emitted, lpJobs, handle, hist>>

\* createPrint: fs.readFile(tempPdfPath) gives the buffer that is counted,
\* imposed and stored
ReadTempPdf(u) ==
  /\ tmp.stage[u] = "converted"
  /\ IF tmp.pdf[TempPath(u)] = "absent"
     THEN tmp' = [tmp EXCEPT !.stage[u] = "failed"]
     ELSE tmp' = [tmp EXCEPT !.buffer[u] = tmp.pdf[TempPath(u)],
                             !.stage[u] = "read"]
  /\ UNCHANGED <<variant, spool, recon, conn, call, imp, prints, pc, timers, queries, writes, emitted, lpJobs, handle, hist>>

\* createPrint: the temporary files are unlinked before it returns
UnlinkTempFiles(u) ==
  /\ tmp.stage[u] = "read"
  /\ tmp' = [tmp EXCEPT !.input[TempPath(u)] = "absent",
                          !.pdf[TempPath(u)] = "absent",
                          !.stage[u] = "done"]
  /\ UNCHANGED <<variant, spool, recon, conn, call, imp, prints, pc, timers, queries, writes, emitted, lpJobs, handle, hist>>

----------------------------------------------------------------------------
(* createPrint in booklet mode: validation of the sheet range, padding,     *)
(* reordering and sheet filtering, followed for one booklet request         *)

\* the values of sheetsFrom / sheetsTo submitted
SheetValues ==
  {Absent, Str(2)} \cup {Num(n) : n \in (-1)..MaxSheets}

\* @IsOptional() @IsInt() @Min(1)
ValidSheetBoundLax(x) ==
  x = Absent \/ x.type = "number"

ValidSheetBound(x) ==
  x = Absent \/ (x.type = "number" /\ x.value >= 1)

\* JavaScript truthiness of a field value
Truthy(x) ==
  \/ x.type = "number" /\ x.value # 0
  \/ x.type = "string"

\* x || d for a numeric default d
OrElse(x, d) == IF Truthy(x) THEN x.value ELSE d

\* the controller's validate(dto), for the sheet range of the request
ValidateSheets ==
  /\ imp.stage = "received"
  /\ IF ValidSheetBound(imp.sheetsFrom) /\ ValidSheetBound(imp.sheetsTo)
     THEN imp' = [imp EXCEPT !.stage = "validated"]
     ELSE imp' = [imp EXCEPT !.stage = "rejected",
                             !.error = Some("Validation failed")]
  /\ UNCHANGED <<variant, spool, tmp, recon, conn, call, prints, pc, timers, queries, writes, emitted, lpJobs, handle, hist>>

\* pagesToAdd with the outer modulo forgotten
PagesToAddNoWrap(pageCount) == 4 - (pageCount % 4)

PagesToAdd(pageCount) == (4 - (pageCount % 4)) % 4

\* createPrint: the document is padded with blank pages
PadPages ==
  /\ imp.stage = "validated"
  /\ imp' = [imp EXCEPT !.stage = "padded",
                         !.pagesToAdd = PagesToAdd(imp.pages),
                         !.pageCount = imp.pages + PagesToAdd(imp.pages)]
  /\ UNCHANGED <<variant, spool, tmp, recon, conn, call, prints, pc, timers, queries, writes, emitted, lpJobs, handle, hist>>

\* Group with the last entry taken from the wrong end
GroupRepeated(pageCount, i) ==
  <<pageCount - 1 - i, i, i + 1, pageCount - 1 - i>>

\* the four entries one pass of the reordering loop pushes
Group(pageCount, i) ==
  <<pageCount - 1 - i, i, i + 1, pageCount - 2 - i>>

\* for (let i = 0; i < pageCount / 2; i += 2) push the group of i
RECURSIVE PushGroups(_, _, _)
PushGroups(pageCount, i, order) ==
  IF 2 * i < pageCount
  THEN PushGroups(pageCount, i + 2, order \o Group(pageCount, i))
  ELSE order

NewPageOrder(pageCount) == PushGroups(pageCount, 0, <<>>)

\* createPrint: the page order of the booklet is built
ReorderPages ==
  /\ imp.stage = "padded"
  /\ imp' = [imp EXCEPT !.stage = "reordered",
                         !.newPageOrder = NewPageOrder(imp.pageCount)]
  /\ UNCHANGED <<variant, spool, tmp, recon, conn, call, prints, pc, timers, queries, writes, emitted, lpJobs, handle, hist>>

Min2(a, b) == IF a < b THEN a ELSE b

\* Math.ceil(pageCount / 2)
TotalSheets(pageCount) == (pageCount + 1) \div 2

\* Slice with the end index taken as exclusive where it is inclusive
SliceShort(order, startIndex, endIndex) ==
  SubSeq(order, startIndex + 1, Min2(endIndex - 1, Len(order)))

\* order.slice(startIndex, endIndex): the entries at the 0-based indices
\* startIndex .. endIndex - 1 that exist
Slice(order, startIndex, endIndex) ==
  SubSeq(order, startIndex + 1, Min2(endIndex, Len(order)))

\* what the sheet-range check of createPrint throws, or Undefined
SheetRangeError(sheetsFrom, sheetsTo, totalSheets) ==
  IF sheetsFrom > sheetsTo
  THEN Some("sheetsFrom must be less than or equal to sheetsTo")
  ELSE IF sheetsFrom < 1 \/ sheetsTo < 1
       THEN Some("sheetsFrom and sheetsTo must be at least 1")
       ELSE IF sheetsTo > totalSheets
            THEN Some("sheetsTo exceeds total sheets")
            ELSE Undefined

\* createPrint: the sheet range, if one is given, is checked and the page
\* order is cut down to its sheets
FilterSheets ==
  /\ imp.stage = "reordered"
  /\ IF Truthy(imp.sheetsFrom) \/ Truthy(imp.sheetsTo)
     THEN LET totalSheets == TotalSheets(imp.pageCount)
              sheetsFrom == OrElse(imp.sheetsFrom, 1)
              sheetsTo == OrElse(imp.sheetsTo, totalSheets)
              error == SheetRangeError(sheetsFrom, sheetsTo, totalSheets)
              startIndex == (sheetsFrom - 1) * 4
              endIndex == Min2(sheetsTo * 4 - 1, imp.pageCount - 1)
          IN IF error # Undefined
             THEN imp' = [imp EXCEPT !.stage = "rejected", !.error = error]
             ELSE imp' = [imp EXCEPT !.stage = "imposed",
                                     !.finalPageOrder =
                                       Slice(imp.newPageOrder, startIndex, endIndex + 1)]
     ELSE imp' = [imp EXCEPT !.stage = "imposed",
                             !.finalPageOrder = imp.newPageOrder]
  /\ UNCHANGED <<variant, spool, tmp, recon, conn, call, prints, pc, timers, queries, writes, emitted, lpJobs, handle, hist>>

\* the booklet request followed: a PDF, one copy, all pages, orientation as
\* requested
BookletDto(orientation) ==
  [fileType |-> "pdf", pageLayout |-> BOOKLET, orientation |-> orientation,
   sides |-> DOUBLE, copies |-> Some(1), pagesToPrint |-> PagesAll]

\* createPrint: the record of the imposed booklet is saved
SaveBooklet(j) ==
  /\ imp.stage = "imposed"
  /\ pc[j] = "none"
  /\ \E orientation \in {UPRIGHT, SIDEWAYS} :
       LET printData == [PrintData(BookletDto(orientation)) EXCEPT !.pages = imp.pages]
       IN /\ prints' = [prints EXCEPT ![j] = printData]
          /\ call' = [call EXCEPT ![j] =
                        [savedPrint |-> printData, result |-> "running"]]
  /\ pc' = [pc EXCEPT ![j] = "saved"]
  /\ imp' = [imp EXCEPT !.stage = "saved"]
  /\ UNCHANGED <<variant, spool, tmp, recon, conn, timers, queries, writes, emitted, lpJobs, handle, hist>>

----------------------------------------------------------------------------
(* updatePrintStatus *)

\* updateData of the CUPS service.  Undefined entries are not written by the
\* store ($set with an undefined value leaves the field as it is).
UpdateData(status, jobId, timestamp, errorMessage, pagesPrinted) ==
  [requestStatus |-> Some(status),
   jobId |-> jobId,
   errorMessage |-> errorMessage,
   pagesPrinted |-> pagesPrinted,
   jobStartTime |-> IF timestamp # Undefined /\ status = SENT_TO_PRINTER
                    THEN timestamp ELSE Undefined,
   jobEndTime |-> IF timestamp # Undefined /\ status \in {FAILED, COMPLETED}
                  THEN timestamp ELSE Undefined]

\* updateData of the Windows-spooler services
WinUpdateData(status, jobId, timestamp, errorMessage, pagesPrinted) ==
  [requestStatus |-> Some(status),
   jobId |-> jobId,
   errorMessage |-> errorMessage,
   pagesPrinted |-> pagesPrinted,
   jobStartTime |-> IF timestamp # Undefined /\ status = PROCESSING
                    THEN timestamp ELSE Undefined,
   jobEndTime |-> IF timestamp # Undefined
                     /\ status \in {COMPLETED, ABORTED, CANCELED}
                  THEN timestamp ELSE Undefined]

\* ApplySet with the fields outside updateData put back to their defaults
ApplySetDefaults(rec, data) ==
  [k \in DOMAIN rec |->
     IF k \in DOMAIN data /\ data[k] # Undefined
     THEN IF k \in {"requestStatus", "pagesPrinted"} THEN data[k][1] ELSE data[k]
     ELSE IF k = "copies" THEN 1 ELSE rec[k]]

\* printModel.updateOne({_id}, {$set: updateData}) on a record
ApplySet(rec, data) ==
  [k \in DOMAIN rec |->
     IF k \in DOMAIN data /\ data[k] # Undefined
     THEN IF k \in {"requestStatus", "pagesPrinted"} THEN data[k][1] ELSE data[k]
     ELSE rec[k]]

\* A call of updatePrintStatus: the update it will send, who made it (kind),
\* the backend state it reports (native, for a poll), and what its caller
\* does once it returns (then).
Update(j, kind, native, data, then) ==
  [job |-> j, kind |-> kind, native |-> native, phase |-> "update",
   data |-> data, then |-> then]

\* Continue with two timers armed for the next poll
ContinueArmsTwo(w) ==
  timers' = [timers EXCEPT ![w.job] = IF w.then = "rearm" THEN @ + 2 ELSE @]

\* what the awaiting caller does when updatePrintStatus has returned
Continue(w) ==
  timers' = [timers EXCEPT ![w.job] = IF w.then = "rearm" THEN @ + 1 ELSE @]

\* updatePrintStatus: the updateOne is applied by the store.
UpdateOne(w) ==
  /\ w.phase = "update"
  /\ prints[w.job] # NoPrint
  /\ prints' = [prints EXCEPT ![w.job] = ApplySet(@, w.data)]
  /\ writes' = (writes \ {w}) \cup {[w EXCEPT !.phase = "find"]}
  /\ hist' = [hist EXCEPT ![w.job].pollApplied =
                @ \/ w.kind \in {"poll", "queryFailed"}]
  /\ UNCHANGED <<variant, spool, tmp, recon, conn, call, imp, pc, timers, queries, emitted, lpJobs, handle>>

\* updatePrintStatus: findById returns the record, which is broadcast; the
\* call returns.  A broadcast that throws is caught and logged like a store
\* error, after the update was applied.
FindAndEmit(w) ==
  /\ w.phase = "find"
  /\ \E threw \in BOOLEAN :
       IF threw
       THEN /\ hist' = [hist EXCEPT ![w.job].notifierThrew = TRUE]
            /\ UNCHANGED emitted
       ELSE /\ emitted' = [emitted EXCEPT ![w.job] = Some(prints[w.job].requestStatus)]
            /\ UNCHANGED hist
  /\ writes' = writes \ {w}
  /\ Continue(w)
  /\ UNCHANGED <<variant, spool, tmp, recon, conn, call, imp, prints, pc, queries, lpJobs, handle>>

\* updatePrintStatus: a store operation rejects; the error is logged and the
\* call returns without a broadcast.
StoreError(w) ==
  /\ writes' = writes \ {w}
  /\ Continue(w)
  /\ hist' = [hist EXCEPT ![w.job].storeError = TRUE]
  /\ UNCHANGED <<variant, spool, tmp, recon, conn, call, imp, prints, pc, queries, emitted, lpJobs, handle>>

----------------------------------------------------------------------------
(* the controller *)

\* the update kinds of the dispatch and reconciliation path
DispatchKinds == {"sent", "sendFailed", "poll", "queryFailed"}

\* the request body of POST /prints/emit sent: the two required fields with
\* jobId, jobEndTime and errorMessage
EmitBodies ==
  {[requestStatus |-> COMPLETED, jobId |-> Some("body"), jobEndTime |-> Some(Now),
    errorMessage |-> Some("body")]}

\* POST /prints/emit: for an existing print, updatePrintStatus is called with
\* the status, jobId, timestamp and error message of the request body.
EmitViaGateway(j) ==
  /\ prints[j] # NoPrint
  /\ hist[j].emitCalls < MaxEmitCalls
  /\ \E body \in EmitBodies :
       writes' = writes \cup
         {Update(j, "emit", "",
                 UpdateData(body.requestStatus, body.jobId, body.jobEndTime,
                            body.errorMessage, Undefined),
                 "none")}
  /\ hist' = [hist EXCEPT ![j].emitCalls = @ + 1]
  /\ UNCHANGED <<variant, spool, tmp, recon, conn, call, imp, prints, pc, timers, queries, emitted, lpJobs, handle>>

----------------------------------------------------------------------------
(* onModuleInit: initializePrinterConnection *)

maxRetries == 3

\* printer-state of a Get-Printer-Attributes response: a keyword or the
\* enum number
PrinterStates ==
  {[type |-> "string", text |-> t, value |-> 0] : t \in {"idle", "processing", "stopped"}}
    \cup {[type |-> "number", text |-> "", value |-> n] : n \in {3, 4}}

\* what printer.execute('Get-Printer-Attributes') calls back with
PrinterResponses ==
  {[kind |-> k, printerState |-> [type |-> "string", text |-> "", value |-> 0],
    acceptingJobs |-> Undefined] : k \in {"err", "noAttributes"}}
    \cup [kind : {"attributes"}, printerState : PrinterStates,
          acceptingJobs : {Undefined, Some(TRUE), Some(FALSE)}]

\* checkPrinterStatus: what the promise resolves to
IsPrinterAvailable(res) ==
  /\ res.kind = "attributes"
  /\ \/ res.printerState.type = "string" /\ res.printerState.text = "idle"
     \/ res.printerState.type = "number" /\ res.printerState.value = 3
  /\ res.acceptingJobs = Some(TRUE)

\* WhileCondition with the test of printerConnected forgotten
WhileAttemptsLeft(attempt, printerConnected) == attempt < maxRetries

\* the condition of the while loop
WhileCondition(attempt, printerConnected) ==
  attempt < maxRetries /\ ~printerConnected

\* where the loop goes after attempt++
LoopStage(attempt, printerConnected) ==
  IF WhileCondition(attempt, printerConnected) THEN "checking" ELSE "done"

\* one pass of the loop up to its await of the delay: the check is answered
CheckAnswered ==
  /\ conn.stage = "checking"
  /\ \E res \in PrinterResponses :
       LET isPrinterAvailable == IsPrinterAvailable(res)
       IN IF isPrinterAvailable
          THEN conn' = [conn EXCEPT !.printerConnected = TRUE,
                                     !.checks = Append(@, res),
                                     !.attempt = @ + 1,
                                     !.stage = LoopStage(conn.attempt + 1, TRUE)]
          ELSE IF conn.attempt + 1 = maxRetries
               THEN conn' = [conn EXCEPT !.printerConnected = FALSE,
                                          !.checks = Append(@, res),
                                          !.attempt = @ + 1,
                                          !.stage = LoopStage(conn.attempt + 1, FALSE)]
               ELSE conn' = [conn EXCEPT !.printerConnected = FALSE,
                                          !.checks = Append(@, res),
                                          !.stage = "waiting"]
  /\ UNCHANGED <<variant, spool, tmp, recon, call, imp, prints, pc, timers, queries, writes, emitted, lpJobs, handle, hist>>

\* the delay of 2000 ms has passed: attempt++ and the loop condition
DelayElapsed ==
  /\ conn.stage = "waiting"
  /\ conn' = [conn EXCEPT !.waits = @ + 1,
                           !.attempt = @ + 1,
                           !.stage = LoopStage(conn.attempt + 1, conn.printerConnected)]
  /\ UNCHANGED <<variant, spool, tmp, recon, call, imp, prints, pc, timers, queries, writes, emitted, lpJobs, handle, hist>>

----------------------------------------------------------------------------
(* sendToCups *)

\* SendFailed with the error message not passed on
SendFailedNoMessage(j, errorMessage, newPc) ==
  /\ writes' = writes \cup
       {Update(j, "sendFailed", "",
               UpdateData(FAILED, Undefined, Undefined, Undefined, Undefined),
               "none")}
  /\ pc' = [pc EXCEPT ![j] = newPc]

\* SendFailed with the job put back to be submitted
SendFailedResubmits(j, errorMessage, newPc) ==
  /\ writes' = writes \cup
       {Update(j, "sendFailed", "",
               UpdateData(FAILED, Undefined, Undefined, Some(errorMessage), Undefined),
               "none")}
  /\ pc' = [pc EXCEPT ![j] = "lp"]

\* the catch block of sendToCups
SendFailed(j, errorMessage, newPc) ==
  /\ writes' = writes \cup
       {Update(j, "sendFailed", "",
               UpdateData(FAILED, Undefined, Undefined, Some(errorMessage), Undefined),
               "none")}
  /\ pc' = [pc EXCEPT ![j] = newPc]

\* CheckCupsAvailability with the result of the check not acted on
CheckCupsIgnored(j) ==
  /\ pc[j] = "checkCups"
  /\ \E ok \in BOOLEAN :
       /\ hist' = [hist EXCEPT ![j].cupsChecks = @ + 1, ![j].cupsOk = ok]
       /\ pc' = [pc EXCEPT ![j] = "checkPrinter"]
       /\ UNCHANGED writes
  /\ UNCHANGED <<variant, spool, tmp, recon, conn, call, imp, prints, timers, queries, emitted, lpJobs, handle>>

\* sendToCups: the answer of the CUPS availability check has arrived.
CheckCupsAvailability(j) ==
  /\ pc[j] = "checkCups"
  /\ \E ok \in BOOLEAN :
       /\ hist' = [hist EXCEPT ![j].cupsChecks = @ + 1, ![j].cupsOk = ok,
                               ![j].failReason =
                                 IF ok THEN @ ELSE Some("CUPS server is not available")]
       /\ IF ok
          THEN pc' = [pc EXCEPT ![j] = "checkPrinter"] /\ UNCHANGED writes
          ELSE SendFailed(j, "CUPS server is not available", "notReady")
  /\ UNCHANGED <<variant, spool, tmp, recon, conn, call, imp, prints, timers, queries, emitted, lpJobs, handle>>

\* sendToCups: the answer of the printer readiness check has arrived.
CheckPrinterStatus(j) ==
  /\ pc[j] = "checkPrinter"
  /\ \E ok \in BOOLEAN :
       /\ hist' = [hist EXCEPT ![j].printerChecks = @ + 1, ![j].printerOk = ok,
                               ![j].failReason =
                                 IF ok THEN @ ELSE Some("Printer is offline or unavailable")]
       /\ IF ok
          THEN /\ pc' = [pc EXCEPT ![j] = IF prints[j].fileType = "pdf"
                                          THEN "lp" ELSE "convert"]
               /\ UNCHANGED writes
          ELSE SendFailed(j, "Printer is offline or unavailable", "notReady")
  /\ UNCHANGED <<variant, spool, tmp, recon, conn, call, imp, prints, timers, queries, emitted, lpJobs, handle>>

\* sendToCups: the conversion of a document that is no PDF has ended.
ConvertToPdf(j) ==
  /\ pc[j] = "convert"
  /\ \E ok \in BOOLEAN :
       IF ok
       THEN pc' = [pc EXCEPT ![j] = "lp"] /\ UNCHANGED <<writes, hist>>
       ELSE /\ SendFailed(j, "Failed to convert file to PDF", "convertFailed")
            /\ hist' = [hist EXCEPT ![j].failReason =
                                      Some("Failed to convert file to PDF")]
  /\ UNCHANGED <<variant, spool, tmp, recon, conn, call, imp, prints, timers, queries, emitted, lpJobs, handle>>

\* what the lp command can come to: its output names the job, or the command
\* rejects, writes to stderr, or prints no request id
LpOutcomes ==
  {"ok", "Command failed: lp", "lp command failed",
   "Failed to parse job ID from lp output"}

\* the job id parsed from "request id is <printer>-<n>"
ParsedJobId(n) == ToString(n)

\* monitorPrintJob: checkStatus is called once, which sends the first
\* Get-Job-Attributes request.
MonitorPrintJob(j, jobId) ==
  /\ queries' = [queries EXCEPT ![j] = @ + 1]
  /\ handle' = [handle EXCEPT ![j] = jobId]

\* the sides option sendToCups gives the lp command
SidesOption(print) ==
  IF print.sides = DOUBLE
  THEN IF print.pageLayout = BOOKLET
       THEN "two-sided-short-edge" ELSE "two-sided-long-edge"
  ELSE "one-sided"

\* sendToCups: the lp command has ended.
Lp(j) ==
  /\ pc[j] = "lp"
  /\ \E out \in LpOutcomes :
       IF out = "ok"
       THEN LET jobId == Some(ParsedJobId(lpJobs + 1))
            IN /\ lpJobs' = lpJobs + 1
               /\ writes' = writes \cup
                    {Update(j, "sent", "",
                            UpdateData(SENT_TO_PRINTER, jobId, Some(Now),
                                       Undefined, Undefined),
                            "none")}
               /\ MonitorPrintJob(j, jobId)
               /\ pc' = [pc EXCEPT ![j] = "monitoring"]
               /\ hist' = [hist EXCEPT ![j].lpRuns = @ + 1, ![j].monitors = @ + 1,
                                       ![j].lpSides = Some(SidesOption(prints[j]))]
       ELSE /\ SendFailed(j, out, "submitFailed")
            \* the backend may have taken the job although the command failed
            /\ \E taken \in BOOLEAN : lpJobs' = IF taken THEN lpJobs + 1 ELSE lpJobs
            /\ hist' = [hist EXCEPT ![j].lpRuns = @ + 1, ![j].failReason = Some(out),
                                    ![j].lpSides = Some(SidesOption(prints[j]))]
            /\ UNCHANGED <<queries, handle>>
  /\ UNCHANGED <<variant, spool, tmp, recon, conn, call, imp, prints, timers, emitted>>

----------------------------------------------------------------------------
(* the reconciliation loop of the CUPS service *)

\* the switch of processJobStatus
MapJobState(jobState) ==
  CASE jobState \in {"pending", "pending-held"} -> PENDING
    [] jobState = "processing" -> SENT_TO_PRINTER
    [] jobState = "completed" -> COMPLETED
    [] OTHER -> FAILED

\* the job states the switch has a case for
NamedJobStates == {"pending", "pending-held", "processing", "completed"}

PagesPerSheet(print) ==
  IF print.pageLayout = BOOKLET THEN 1
  ELSE IF print.sides = DOUBLE THEN 2 ELSE 1

\* Ceil with the quotient rounded down
CeilDown(a, b) == a \div b

\* Math.ceil(a / b) for a >= 0, b > 0
Ceil(a, b) == (a + b - 1) \div b

\* calculatedPagesPrinted of processJobStatus, for a job that completed
CalculatedPagesPrinted(print, pagesCompleted, sheetsFromLpstat, sheetsCompleted, impressionsCompleted) ==
  IF pagesCompleted > 0
  THEN IF print.pageLayout = BOOKLET
       THEN Ceil(pagesCompleted, 4) * print.copies
       ELSE pagesCompleted * print.copies
  ELSE IF sheetsFromLpstat > 0
       THEN sheetsFromLpstat * PagesPerSheet(print) * print.copies
       ELSE IF sheetsCompleted > 0
            THEN sheetsCompleted * PagesPerSheet(print) * print.copies
            ELSE IF impressionsCompleted > 0
                 THEN impressionsCompleted * print.copies
                 ELSE 0

\* Rearm for a job the backend still holds back only
RearmOnlyPending(status) == status = PENDING

\* Rearm with the completed case forgotten
RearmUnlessFailed(status) == status # FAILED

\* the condition under which processJobStatus arms the next poll
Rearm(status) == status # FAILED /\ status # COMPLETED

Counts == 0..MaxCount

\* a timer fires: checkStatus sends the next status query
CheckStatus(j) ==
  /\ timers[j] > 0
  /\ timers' = [timers EXCEPT ![j] = @ - 1]
  /\ queries' = [queries EXCEPT ![j] = @ + 1]
  /\ UNCHANGED <<variant, spool, tmp, recon, conn, call, imp, prints, pc, writes, emitted, lpJobs, handle, hist>>

\* QueryFailed with the return forgotten: the next poll is armed
QueryFailedKeepsPolling(j) ==
  /\ queries[j] > 0
  /\ queries' = [queries EXCEPT ![j] = @ - 1]
  /\ \E errorMessage \in {"Job status error", "Invalid response: no job attributes"} :
       /\ writes' = writes \cup
            {Update(j, "queryFailed", "",
                    UpdateData(FAILED, Undefined, Undefined, Some(errorMessage),
                               Undefined),
                    "rearm")}
       /\ hist' = [hist EXCEPT ![j].queryFailed = TRUE,
                               ![j].failReason = Some(errorMessage)]
  /\ UNCHANGED <<variant, spool, tmp, recon, conn, call, imp, prints, pc, timers, emitted, lpJobs, handle>>

\* the status query failed: the Get-Job-Attributes callback is called with
\* an error (monitorPrintJob), or with a response that has no job attributes
\* (processJobStatus).
QueryFailed(j) ==
  /\ queries[j] > 0
  /\ queries' = [queries EXCEPT ![j] = @ - 1]
  /\ \E errorMessage \in {"Job status error", "Invalid response: no job attributes"} :
       /\ writes' = writes \cup
            {Update(j, "queryFailed", "",
                    UpdateData(FAILED, Undefined, Undefined, Some(errorMessage),
                               Undefined),
                    "none")}
       /\ hist' = [hist EXCEPT ![j].queryFailed = TRUE,
                               ![j].failReason = Some(errorMessage)]
  /\ UNCHANGED <<variant, spool, tmp, recon, conn, call, imp, prints, pc, timers, emitted, lpJobs, handle>>

\* processJobStatus on a response with job attributes, up to its call of
\* updatePrintStatus; the job-history (lpstat) query it may make on the way
\* touches no state, its answer is an input here.
ProcessJobStatus(j) ==
  /\ queries[j] > 0
  /\ queries' = [queries EXCEPT ![j] = @ - 1]
  /\ \E jobState \in IppJobStates,
        pagesCompleted \in Counts, sheetsFromLpstat \in Counts,
        sheetsCompleted \in Counts, impressionsCompleted \in Counts :
       LET status == MapJobState(jobState)
           pages == CalculatedPagesPrinted(prints[j], pagesCompleted,
                      sheetsFromLpstat, sheetsCompleted, impressionsCompleted)
       IN /\ writes' = writes \cup
               {Update(j, "poll", jobState,
                       UpdateData(status, handle[j],
                                  IF status = COMPLETED \/ status = FAILED
                                  THEN Some(Now) ELSE Undefined,
                                  IF status = FAILED
                                  THEN Some("Job " \o jobState) ELSE Undefined,
                                  IF status = COMPLETED THEN Some(pages) ELSE Undefined),
                       IF Rearm(status) THEN "rearm" ELSE "none")}
          /\ hist' = [hist EXCEPT ![j].termPolled =
                                    @ \/ status \in TerminalStatuses("cups")]
  /\ UNCHANGED <<variant, spool, tmp, recon, conn, call, imp, prints, pc, timers, emitted, lpJobs, handle>>

----------------------------------------------------------------------------
(* processJobStatus followed step by step, for one response                 *)

\* the values of a counter attribute in the response: missing, or a number
CounterValues == {Undefined} \cup {Some(n) : n \in 0..MaxCompleted}

\* res[...][attribute] || 0
OrZero(x) == IF x = Undefined THEN 0 ELSE x[1]

\* the fields of the print processJobStatus reads
ReconPrints ==
  [pageLayout : {NORMAL, BOOKLET}, sides : {SINGLE, DOUBLE}, copies : 1..MaxCopies]

\* what the lpstat command can end with; value is the number its output
\* holds where a number is expected
NoLpstat == [kind |-> "none", value |-> 0]

LpstatOutcomes ==
  {[kind |-> k, value |-> 0] : k \in {"threw", "empty", "unparsed"}}
    \cup {[kind |-> k, value |-> n] : k \in {"stdout", "stderr"}, n \in 0..MaxCompleted}

\* GetJobPageCountFromLpstat with the check of stderr forgotten
GetJobPageCountIgnoringStderr(outcome) == outcome.value

\* getJobPageCountFromLpstat: the number parsed from the output, 0 when the
\* command failed, wrote to stderr, printed nothing or nothing that parses
GetJobPageCountFromLpstat(outcome) ==
  IF outcome.kind = "stdout" THEN outcome.value ELSE 0

\* processJobStatus: the attributes are read and the job state mapped; with
\* a positive pages-completed the count is computed at once.
ReadJobAttributes ==
  /\ recon.stage = "response"
  /\ LET status == MapJobState(recon.jobState)
          pagesCompleted == OrZero(recon.pagesCompleted)
     IN recon' = [recon EXCEPT
          !.status = status,
          !.stage = IF status = COMPLETED /\ ~(pagesCompleted > 0)
                    THEN "lpstat" ELSE "counted",
          !.calculatedPagesPrinted =
             IF status = COMPLETED /\ pagesCompleted > 0
             THEN CalculatedPagesPrinted(recon.print, pagesCompleted, 0, 0, 0)
             ELSE 0]
  /\ UNCHANGED <<variant, spool, tmp, conn, call, imp, prints, pc, timers, queries, writes, emitted, lpJobs, handle, hist>>

\* processJobStatus: the lpstat query has ended and the count is computed
\* from its answer, the sheets counter or the impressions counter.
QueryLpstat ==
  /\ recon.stage = "lpstat"
  /\ \E outcome \in LpstatOutcomes :
       LET sheetsFromLpstat == GetJobPageCountFromLpstat(outcome)
       IN recon' = [recon EXCEPT
            !.stage = "counted",
            !.lpstat = outcome,
            !.sheetsFromLpstat = sheetsFromLpstat,
            !.calculatedPagesPrinted =
               CalculatedPagesPrinted(recon.print, 0, sheetsFromLpstat,
                                      OrZero(recon.sheetsCompleted),
                                      OrZero(recon.impressionsCompleted))]
  /\ UNCHANGED <<variant, spool, tmp, conn, call, imp, prints, pc, timers, queries, writes, emitted, lpJobs, handle, hist>>

\* processJobStatus: updatePrintStatus is called and the next poll armed
\* or not.
CallUpdatePrintStatus ==
  /\ recon.stage = "counted"
  /\ LET status == recon.status
     IN recon' = [recon EXCEPT
          !.stage = "updated",
          !.update = Some(UpdateData(status, Some(recon.jobId),
                       IF status = COMPLETED \/ status = FAILED
                       THEN Some(Now) ELSE Undefined,
                       IF status = FAILED
                       THEN Some("Job " \o recon.jobState) ELSE Undefined,
                       IF status = COMPLETED
                       THEN Some(recon.calculatedPagesPrinted) ELSE Undefined)),
          !.rearmed = Rearm(status)]
  /\ UNCHANGED <<variant, spool, tmp, conn, call, imp, prints, pc, timers, queries, writes, emitted, lpJobs, handle, hist>>

----------------------------------------------------------------------------
(* sendToWindowsPrinter and the reconciliation loop of the Windows-spooler  *)
(* services                                                                 *)

\* the catch block of sendToWindowsPrinter
WinSendFailed(j, errorMessage, newPc) ==
  /\ writes' = writes \cup
       {Update(j, "sendFailed", "",
               WinUpdateData(ABORTED, Undefined, Undefined, Some(errorMessage),
                             Undefined),
               "none")}
  /\ pc' = [pc EXCEPT ![j] = newPc]
  /\ hist' = [hist EXCEPT ![j].failReason = Some(errorMessage)]

\* sendToWindowsPrinter: the answer of the printer readiness check has arrived.
WinCheckPrinterStatus(j) ==
  /\ pc[j] = "checkPrinter"
  /\ \E ok \in BOOLEAN :
       IF ok
       THEN /\ pc' = [pc EXCEPT ![j] = IF prints[j].fileType = "pdf"
                                       THEN "startPrintJob" ELSE "convert"]
            /\ UNCHANGED <<writes, hist>>
       ELSE WinSendFailed(j, "Printer is offline or unavailable", "notReady")
  /\ UNCHANGED <<variant, spool, tmp, recon, conn, call, imp, prints, timers, queries, emitted, lpJobs, handle>>

\* sendToWindowsPrinter: the conversion of a document that is no PDF has ended.
WinConvertToPdf(j) ==
  /\ pc[j] = "convert"
  /\ \E ok \in BOOLEAN :
       IF ok
       THEN pc' = [pc EXCEPT ![j] = "startPrintJob"] /\ UNCHANGED <<writes, hist>>
       ELSE WinSendFailed(j, "Failed to convert file to PDF", "convertFailed")
  /\ UNCHANGED <<variant, spool, tmp, recon, conn, call, imp, prints, timers, queries, emitted, lpJobs, handle>>

StartPrintJobOutcomes ==
  {"ok", "Command failed: powershell", "Print command failed",
   "Failed to parse job ID from print output"}

\* monitorWindowsPrintJob: checkStatus is called once, which starts
\* processJobStatus and its Get-PrintJob query.
MonitorWindowsPrintJob(j, jobId) ==
  /\ queries' = [queries EXCEPT ![j] = @ + 1]
  /\ handle' = [handle EXCEPT ![j] = jobId]

\* sendToWindowsPrinter: the Start-PrintJob command has ended.
StartPrintJob(j) ==
  /\ pc[j] = "startPrintJob"
  /\ \E out \in StartPrintJobOutcomes :
       IF out = "ok"
       THEN LET jobId == Some(ParsedJobId(lpJobs + 1))
            IN /\ lpJobs' = lpJobs + 1
               /\ writes' = writes \cup
                    {Update(j, "sent", "",
                            WinUpdateData(PROCESSING, jobId, Some(Now),
                                          Undefined, Undefined),
                            "none")}
               /\ MonitorWindowsPrintJob(j, jobId)
               /\ pc' = [pc EXCEPT ![j] = "monitoring"]
               /\ hist' = [hist EXCEPT ![j].lpRuns = @ + 1, ![j].monitors = @ + 1]
       ELSE /\ WinSendFailed(j, out, "submitFailed")
            /\ \E taken \in BOOLEAN : lpJobs' = IF taken THEN lpJobs + 1 ELSE lpJobs
            /\ UNCHANGED <<queries, handle>>
  /\ UNCHANGED <<variant, spool, tmp, recon, conn, call, imp, prints, timers, emitted>>

\* the switch of processJobStatus, on jobState.toLowerCase()
WinMapJobState(jobState) ==
  CASE jobState = "printing" -> PROCESSING
    [] jobState = "completed" -> COMPLETED
    [] jobState = "error" -> ABORTED
    [] jobState = "paused" -> HELD
    [] jobState = "deleted" -> CANCELED
    [] OTHER -> PENDING

\* the job states the switch has a case for
WinNamedJobStates == {"printing", "completed", "error", "paused", "deleted"}

\* calculatedPagesPrinted of processJobStatus, for a job that completed
WinCalculatedPagesPrinted(print, pagesCompleted, fallbackPages) ==
  IF pagesCompleted > 0
  THEN IF print.pageLayout = BOOKLET
       THEN Ceil(pagesCompleted, 4) * print.copies
       ELSE pagesCompleted * print.copies
  ELSE IF fallbackPages > 0
       THEN fallbackPages * PagesPerSheet(print) * print.copies
       ELSE 0

\* the condition under which processJobStatus arms the next poll, part_004
WinRearm004(status) ==
  status # COMPLETED /\ status # ABORTED /\ status = CANCELED

\* WinRearm005 with Held taken for the end of the job
WinRearmNotHeld(status) ==
  status # COMPLETED /\ status # ABORTED /\ status # CANCELED /\ status # HELD

\* the condition under which processJobStatus arms the next poll, part_005
WinRearm005(status) ==
  status # COMPLETED /\ status # ABORTED /\ status # CANCELED

WinRearm(v, status) ==
  IF v = "part_004" THEN WinRearm004(status) ELSE WinRearm005(status)

\* processJobStatus: the Get-PrintJob query failed (the command rejects,
\* writes to stderr, or its output has no JobStatus / TotalPages).
WinQueryFailed(j) ==
  /\ queries[j] > 0
  /\ queries' = [queries EXCEPT ![j] = @ - 1]
  /\ \E errorMessage \in {"Command failed: powershell", "Job status check failed",
                          "Invalid job status response"} :
       /\ writes' = writes \cup
            {Update(j, "queryFailed", "",
                    WinUpdateData(ABORTED, Undefined, Undefined, Some(errorMessage),
                                  Undefined),
                    "none")}
       /\ hist' = [hist EXCEPT ![j].queryFailed = TRUE,
                               ![j].failReason = Some(errorMessage)]
  /\ UNCHANGED <<variant, spool, tmp, recon, conn, call, imp, prints, pc, timers, emitted, lpJobs, handle>>

\* processJobStatus: the Get-PrintJob query answered, up to the call of
\* updatePrintStatus; the page-count query it may make on the way touches no
\* state, its answer is an input here.
WinProcessJobStatus(j) ==
  /\ queries[j] > 0
  /\ queries' = [queries EXCEPT ![j] = @ - 1]
  /\ \E jobState \in WinJobStates, pagesCompleted \in Counts, fallbackPages \in Counts :
       LET status == WinMapJobState(jobState)
           terminal == status = COMPLETED \/ status = ABORTED \/ status = CANCELED
           pages == WinCalculatedPagesPrinted(prints[j], pagesCompleted, fallbackPages)
       IN /\ writes' = writes \cup
               {Update(j, "poll", jobState,
                       WinUpdateData(status, handle[j],
                                     IF terminal THEN Some(Now) ELSE Undefined,
                                     IF status = ABORTED \/ status = CANCELED
                                     THEN Some("Job " \o jobState) ELSE Undefined,
                                     IF status = COMPLETED THEN Some(pages) ELSE Undefined),
                       IF WinRearm(variant, status) THEN "rearm" ELSE "none")}
          /\ hist' = [hist EXCEPT ![j].termPolled = @ \/ terminal]
  /\ UNCHANGED <<variant, spool, tmp, recon, conn, call, imp, prints, pc, timers, emitted, lpJobs, handle>>

----------------------------------------------------------------------------
(* sendToPrinter of the Windows-spooler service of part_003                *)

\* sendToPrinter: the print command (Start-Process -Verb Print -Wait) has
\* ended.  Without stderr the spooler of the job's printer has taken a new
\* job, with the next JobId of that printer; with stderr the call goes to
\* its catch.
StartProcessPrint(u) ==
  /\ spool.stage[u] = "start"
  /\ \E stderr \in BOOLEAN :
       IF stderr
       THEN spool' = [spool EXCEPT !.stage[u] = "aborted"]
       ELSE LET p == spool.printer[u]
                id == ToString(spool.submitted[p] + 1)
            IN spool' = [spool EXCEPT !.queue[p] = Append(@, [JobId |-> id, owner |-> u]),
                                      !.submitted[p] = @ + 1,
                                      !.created[u] = id,
                                      !.stage[u] = "printed"]
  /\ UNCHANGED <<variant, tmp, recon, conn, call, imp, prints, pc, timers, queries, writes, emitted, lpJobs, handle, hist>>

\* sendToPrinter: Get-PrintJob -PrinterName | Sort-Object SubmittedTime |
\* Select-Object -Last 1 -ExpandProperty JobId has ended: jobId is the JobId
\* of the job submitted last among those in the printer's queue now, or
\* empty text if the queue is empty; monitorPrintJob is started with it.  A
\* command that rejects sends the call to its catch.
GetPrintJob(u) ==
  /\ spool.stage[u] = "printed"
  /\ \E ok \in BOOLEAN :
       IF ok
       THEN LET q == spool.queue[spool.printer[u]]
                jobId == IF q = <<>> THEN "" ELSE q[Len(q)].JobId
            IN spool' = [spool EXCEPT !.jobId[u] = jobId, !.stage[u] = "monitoring"]
       ELSE spool' = [spool EXCEPT !.stage[u] = "aborted"]
  /\ UNCHANGED <<variant, tmp, recon, conn, call, imp, prints, pc, timers, queries, writes, emitted, lpJobs, handle, hist>>

\* the printer has printed the first job of its queue, which leaves the
\* queue Get-PrintJob lists
SpoolerPrints(p) ==
  /\ spool.queue[p] # <<>>
  /\ spool' = [spool EXCEPT !.queue[p] = Tail(@)]
  /\ UNCHANGED <<variant, tmp, recon, conn, call, imp, prints, pc, timers, queries, writes, emitted, lpJobs, handle, hist>>

----------------------------------------------------------------------------
(* Specifications *)

InitJobs ==
  /\ prints = [j \in Jobs |-> NoPrint]
  /\ pc = [j \in Jobs |-> "none"]
  /\ timers = [j \in Jobs |-> 0]
  /\ queries = [j \in Jobs |-> 0]
  /\ writes = {}
  /\ emitted = [j \in Jobs |-> Undefined]
  /\ lpJobs = 0
  /\ handle = [j \in Jobs |-> Undefined]
  /\ call = [j \in Jobs |-> NoCall]
  /\ hist = [j \in Jobs |-> NoHist]

\* The CUPS service
Init ==
  /\ variant = "cups"
  /\ spool = NoSpooler
  /\ imp = NoImposition
  /\ recon = NoReconciliation
  /\ conn = NoConnection
  /\ tmp = NoUploads
  /\ InitJobs

Next ==
  \/ \E j \in Jobs : CreatePrint(j)
  \/ \E j \in Jobs : StoreFile(j)
  \/ \E j \in Jobs : CreatePrintReturns(j)
  \/ \E j \in Jobs : CheckCupsAvailability(j)
  \/ \E j \in Jobs : CheckPrinterStatus(j)
  \/ \E j \in Jobs : ConvertToPdf(j)
  \/ \E j \in Jobs : Lp(j)
  \/ \E j \in Jobs : CheckStatus(j)
  \/ \E j \in Jobs : QueryFailed(j)
  \/ \E j \in Jobs : ProcessJobStatus(j)
  \/ \E w \in writes : UpdateOne(w)
  \/ \E w \in writes : FindAndEmit(w)
  \/ \E w \in writes : StoreError(w)

Spec == Init /\ [][Next]_vars

\* The CUPS service with the controller's emit route
NextApi ==
  \/ Next
  \/ \E j \in Jobs : EmitViaGateway(j)

SpecApi == Init /\ [][NextApi]_vars

\* A Windows-spooler service
InitWin ==
  /\ variant \in WinVariants
  /\ spool = NoSpooler
  /\ imp = NoImposition
  /\ recon = NoReconciliation
  /\ conn = NoConnection
  /\ tmp = NoUploads
  /\ InitJobs

NextWin ==
  \/ \E j \in Jobs : CreatePrint(j)
  \/ \E j \in Jobs : StoreFile(j)
  \/ \E j \in Jobs : CreatePrintReturns(j)
  \/ \E j \in Jobs : WinCheckPrinterStatus(j)
  \/ \E j \in Jobs : WinConvertToPdf(j)
  \/ \E j \in Jobs : StartPrintJob(j)
  \/ \E j \in Jobs : CheckStatus(j)
  \/ \E j \in Jobs : WinQueryFailed(j)
  \/ \E j \in Jobs : WinProcessJobStatus(j)
  \/ \E w \in writes : UpdateOne(w)
  \/ \E w \in writes : FindAndEmit(w)
  \/ \E w \in writes : StoreError(w)

SpecWin == InitWin /\ [][NextWin]_vars

\* createPrint of the CUPS service for a booklet request
InitBooklet ==
  /\ variant = "cups"
  /\ spool = NoSpooler
  /\ imp \in [stage : {"received"}, pages : 0..MaxPages,
               sheetsFrom : SheetValues, sheetsTo : SheetValues,
               pagesToAdd : {0}, pageCount : {0}, newPageOrder : {<<>>},
               finalPageOrder : {<<>>}, error : {Undefined}]
  /\ recon = NoReconciliation
  /\ conn = NoConnection
  /\ tmp = NoUploads
  /\ InitJobs

NextBooklet ==
  \/ ValidateSheets
  \/ PadPages
  \/ ReorderPages
  \/ FilterSheets
  \/ \E j \in Jobs : SaveBooklet(j)

SpecBooklet == InitBooklet /\ [][NextBooklet]_vars

\* The start of the CUPS service: onModuleInit has entered the loop of
\* initializePrinterConnection.  Every check is answered and the delay ends.
InitStartup ==
  /\ variant = "cups"
  /\ spool = NoSpooler
  /\ imp = NoImposition
  /\ recon = NoReconciliation
  /\ conn = [NoConnection EXCEPT !.stage = LoopStage(0, FALSE)]
  /\ tmp = NoUploads
  /\ InitJobs

NextStartup ==
  \/ CheckAnswered
  \/ DelayElapsed

SpecStartup == InitStartup /\ [][NextStartup]_vars /\ WF_vars(NextStartup)

\* Two uploads of documents that are no PDF enter createPrint
InitFiles ==
  /\ variant = "cups"
  /\ spool = NoSpooler
  /\ imp = NoImposition
  /\ recon = NoReconciliation
  /\ conn = NoConnection
  /\ tmp \in [name : [Uploads -> Names], stage : {[u \in Uploads |-> "start"]},
               buffer : {NoUploads.buffer}, input : {NoUploads.input},
               pdf : {NoUploads.pdf}]
  /\ InitJobs

NextFiles ==
  \/ \E u \in Uploads : WriteTempInput(u)
  \/ \E u \in Uploads : UnoconvToPdf(u)
  \/ \E u \in Uploads : ReadTempPdf(u)
  \/ \E u \in Uploads : UnlinkTempFiles(u)

SpecFiles == InitFiles /\ [][NextFiles]_vars

\* processJobStatus of the CUPS service on one response
InitPages ==
  /\ variant = "cups"
  /\ spool = NoSpooler
  /\ imp = NoImposition
  /\ conn = NoConnection
  /\ recon \in [stage : {"response"}, print : ReconPrints, jobId : {"1"},
                 jobState : IppJobStates, pagesCompleted : CounterValues,
                 sheetsCompleted : CounterValues,
                 impressionsCompleted : CounterValues,
                 status : {PENDING}, lpstat : {NoLpstat}, sheetsFromLpstat : {0},
                 calculatedPagesPrinted : {0}, update : {Undefined},
                 rearmed : {FALSE}]
  /\ tmp = NoUploads
  /\ InitJobs

NextPages ==
  \/ ReadJobAttributes
  \/ QueryLpstat
  \/ CallUpdatePrintStatus

SpecPages == InitPages /\ [][NextPages]_vars

\* The CUPS service when every status query is answered with job attributes
\* and every store operation of updatePrintStatus succeeds.  Timers fire,
\* queries are answered, store operations complete, and a backend that is
\* asked again and again at some time answers with a terminal job state.
NextLive ==
  \/ \E j \in Jobs : CreatePrint(j)
  \/ \E j \in Jobs : StoreFile(j)
  \/ \E j \in Jobs : CreatePrintReturns(j)
  \/ \E j \in Jobs : CheckCupsAvailability(j)
  \/ \E j \in Jobs : CheckPrinterStatus(j)
  \/ \E j \in Jobs : ConvertToPdf(j)
  \/ \E j \in Jobs : Lp(j)
  \/ \E j \in Jobs : CheckStatus(j)
  \/ \E j \in Jobs : ProcessJobStatus(j)
  \/ \E w \in writes : UpdateOne(w)
  \/ \E w \in writes : FindAndEmit(w)

SpecLive ==
  /\ Init
  /\ [][NextLive]_vars
  /\ \A j \in Jobs : WF_vars(CheckStatus(j))
  /\ \A j \in Jobs : WF_vars(ProcessJobStatus(j))
  /\ \A j \in Jobs : SF_vars(ProcessJobStatus(j) /\ hist'[j].termPolled)
  /\ \A k \in DispatchKinds : WF_vars(\E w \in writes : w.kind = k /\ UpdateOne(w))
  /\ \A k \in DispatchKinds : WF_vars(\E w \in writes : w.kind = k /\ FindAndEmit(w))

\* The CUPS service with a backend that answers every status query with a
\* job state that is not terminal (pending, pending-held or processing).
\* Timers fire, queries are answered, store operations complete.
NextBusy ==
  \/ \E j \in Jobs : CreatePrint(j)
  \/ \E j \in Jobs : StoreFile(j)
  \/ \E j \in Jobs : CreatePrintReturns(j)
  \/ \E j \in Jobs : CheckCupsAvailability(j)
  \/ \E j \in Jobs : CheckPrinterStatus(j)
  \/ \E j \in Jobs : ConvertToPdf(j)
  \/ \E j \in Jobs : Lp(j)
  \/ \E j \in Jobs : CheckStatus(j)
  \/ \E j \in Jobs : ProcessJobStatus(j) /\ ~hist'[j].termPolled
  \/ \E w \in writes : UpdateOne(w)
  \/ \E w \in writes : FindAndEmit(w)
  \/ \E w \in writes : StoreError(w)

SpecBusy ==
  /\ Init
  /\ [][NextBusy]_vars
  /\ \A j \in Jobs : WF_vars(CheckStatus(j))
  /\ \A j \in Jobs : WF_vars(ProcessJobStatus(j) /\ ~hist'[j].termPolled)
  /\ \A k \in DispatchKinds : WF_vars(\E w \in writes : w.kind = k /\ UpdateOne(w))
  /\ \A k \in DispatchKinds : WF_vars(\E w \in writes : w.kind = k /\ FindAndEmit(w))

\* The Windows-spooler service of part_003: two sendToPrinter calls, each
\* for a saved job whose printer was found ready, run at the same time
InitSpooler ==
  /\ variant = "part_003"
  /\ imp = NoImposition
  /\ recon = NoReconciliation
  /\ conn = NoConnection
  /\ tmp = NoUploads
  /\ spool \in [printer : [Submissions -> Printers],
                 stage : {[u \in Submissions |-> "start"]},
                 queue : {NoSpooler.queue}, submitted : {NoSpooler.submitted},
                 created : {NoSpooler.created}, jobId : {NoSpooler.jobId}]
  /\ InitJobs

NextSpooler ==
  \/ \E u \in Submissions : StartProcessPrint(u)
  \/ \E u \in Submissions : GetPrintJob(u)
  \/ \E p \in Printers : SpoolerPrints(p)

SpecSpooler == InitSpooler /\ [][NextSpooler]_vars

----------------------------------------------------------------------------
(* Properties *)

\* the updatePrintStatus calls of job j that have not returned
WritesOf(j) == {w \in writes : w.job = j}

Quiet(j) == WritesOf(j) = {} /\ timers[j] = 0 /\ queries[j] = 0

\* C1: CUPS service: once a poll result has been mapped to a terminal status
\* (completed or failed), no timer is armed and no status query is issued
\* for that job any more.
C1_NoPollAfterTerminal ==
  \A j \in Jobs :
    hist[j].termPolled =>
      /\ timers[j] = 0
      /\ queries[j] = 0
      /\ \A w \in WritesOf(j) : w.then = "none"

C1_Witness ==
  \E j \in Jobs :
    /\ hist[j].termPolled
    /\ Quiet(j)
    /\ prints[j].requestStatus = COMPLETED

\* C2: Windows-spooler service of part_004: processJobStatus arms the next
\* poll exactly when the mapped status is not terminal (Pending, Processing
\* or Held arm it; Completed, Aborted, Canceled do not).
C2_RearmIffNotTerminal ==
  \A w \in writes :
    (variant = "part_004" /\ w.kind = "poll") =>
      (w.then = "rearm" <=> w.data.requestStatus[1] \in {PENDING, PROCESSING, HELD})

\* C3: in every service, a backend job state the status switch has no case
\* for is mapped to Pending, and polling goes on.
C3_UnknownMapsToPending ==
  \A w \in writes :
    (/\ w.kind = "poll"
     /\ w.native \notin (IF variant = "cups" THEN NamedJobStates
                                             ELSE WinNamedJobStates)) =>
      /\ w.data.requestStatus = Some(PENDING)
      /\ w.then = "rearm"

\* C4: CUPS service: once the stored status of a job is sent-to-printer, no
\* step moves it back to pending.
C4_StatusOnlyForward ==
  [][\A j \in Jobs :
       prints[j].requestStatus = SENT_TO_PRINTER =>
         prints'[j].requestStatus # PENDING]_vars

\* C5: CUPS service: a job whose stored status is terminal (completed or
\* failed) has its job-end time set.
C5_TerminalHasEndTime ==
  \A j \in Jobs :
    prints[j].requestStatus \in {COMPLETED, FAILED} =>
      prints[j].jobEndTime # Undefined

\* C6: a job's pagesPrinted differs from 0 only if its stored status is
\* completed.
C6_PagesOnlyWhenCompleted ==
  \A j \in Jobs :
    (prints[j] # NoPrint /\ prints[j].pagesPrinted # 0) =>
      prints[j].requestStatus = COMPLETED

\* C7: the updates of one job reach the store in the order they were made:
\* the sent-to-printer update of sendToCups is applied before any update of
\* the poll loop.
C7_UpdatesInOrder ==
  \A w \in writes :
    (w.kind = "sent" /\ w.phase = "update") => ~hist[w.job].pollApplied

\* C8: CUPS service: when a status query fails (an IPP error, or a response
\* without job attributes), the handler makes one update to failed that
\* carries the error message, arms no poll, and no poll or query of that job
\* is outstanding from then on; the store holds failed and the message when
\* that update is applied.
C8_QueryFailureFails ==
  [][/\ \A j \in Jobs :
          hist'[j].queryFailed =>
            /\ timers'[j] = 0
            /\ queries'[j] = 0
            /\ \A w \in writes' : w.job = j => w.then = "none"
     /\ \A j \in Jobs :
          (hist'[j].queryFailed /\ ~hist[j].queryFailed) =>
            \E w \in writes' \ writes :
              /\ w.job = j
              /\ w.phase = "update"
              /\ w.data.requestStatus = Some(FAILED)
              /\ w.data.errorMessage = hist'[j].failReason
              /\ w.data.errorMessage # Undefined
     /\ \A w \in writes :
          (/\ w.kind = "queryFailed"
           /\ w.phase = "update"
           /\ [w EXCEPT !.phase = "find"] \in writes') =>
            /\ prints'[w.job].requestStatus = FAILED
            /\ prints'[w.job].errorMessage = w.data.errorMessage]_vars

C8_Witness ==
  \E j \in Jobs :
    /\ hist[j].queryFailed
    /\ Quiet(j)
    /\ prints[j].requestStatus = FAILED
    /\ prints[j].errorMessage = Some("Job status error")

\* C9: CUPS service: the submit command runs only after the CUPS
\* availability check and the printer readiness check both returned true;
\* each check is made at most once per job; after a check that returned
\* false no submit command is run and no poll is started, the job's status
\* is pending until the failed update is applied and failed with the reason
\* from then on.
C9_ReadinessBeforeSubmit ==
  \A j \in Jobs :
    /\ (hist[j].lpRuns > 0 \/ pc[j] = "lp") => (hist[j].cupsOk /\ hist[j].printerOk)
    /\ hist[j].cupsChecks <= 1
    /\ hist[j].printerChecks <= 1
    /\ pc[j] = "notReady" =>
         /\ ~(hist[j].cupsOk /\ hist[j].printerOk)
         /\ hist[j].lpRuns = 0
         /\ hist[j].monitors = 0
         /\ timers[j] = 0
         /\ queries[j] = 0
         /\ prints[j].jobId = Undefined
         /\ prints[j].requestStatus \in {PENDING, FAILED}
         /\ prints[j].requestStatus = FAILED =>
              /\ prints[j].errorMessage = hist[j].failReason
              /\ hist[j].failReason \in {Some("CUPS server is not available"),
                                         Some("Printer is offline or unavailable")}
         /\ (WritesOf(j) = {} /\ ~hist[j].storeError) =>
              prints[j].requestStatus = FAILED

C9_Witness ==
  \E j \in Jobs :
    /\ pc[j] = "notReady"
    /\ hist[j].cupsOk
    /\ ~hist[j].printerOk
    /\ prints[j].requestStatus = FAILED
    /\ Quiet(j)

\* C10: CUPS service: when the submit command fails (it rejects, writes to
\* stderr, or prints no job id), the job is moved to failed with the error
\* message, no backend job handle is stored and monitorPrintJob is not
\* started.
C10_SubmitFailureFails ==
  \A j \in Jobs :
    pc[j] = "submitFailed" =>
      /\ hist[j].monitors = 0
      /\ timers[j] = 0
      /\ queries[j] = 0
      /\ handle[j] = Undefined
      /\ prints[j].jobId = Undefined
      /\ \A w \in WritesOf(j) : w.data.jobId = Undefined
      /\ prints[j].requestStatus \in {PENDING, FAILED}
      /\ prints[j].requestStatus = FAILED =>
           /\ prints[j].errorMessage = hist[j].failReason
           /\ hist[j].failReason \in {Some(m) : m \in LpOutcomes \ {"ok"}}
      /\ (WritesOf(j) = {} /\ ~hist[j].storeError) =>
           prints[j].requestStatus = FAILED

C10_Witness ==
  \E j \in Jobs :
    /\ pc[j] = "submitFailed"
    /\ prints[j].requestStatus = FAILED
    /\ prints[j].errorMessage = Some("Failed to parse job ID from lp output")
    /\ Quiet(j)

\* C11: a request rejected for a validation or conversion error (invalid
\* page selection, copies below 1 or no number, unsupported file type,
\* failed conversion) leaves the job store unchanged and starts no dispatch;
\* every record in the store passed all these checks.
C11_RejectedCreatesNoJob ==
  \A j \in Jobs :
    /\ hist[j].rejection # Undefined =>
         /\ pc[j] = "rejected"
         /\ prints[j] = NoPrint
         /\ WritesOf(j) = {}
         /\ emitted[j] = Undefined
         /\ hist[j].cupsChecks = 0 /\ hist[j].printerChecks = 0
         /\ hist[j].lpRuns = 0 /\ hist[j].monitors = 0
         /\ timers[j] = 0 /\ queries[j] = 0
    /\ prints[j] # NoPrint =>
         /\ hist[j].rejection = Undefined
         /\ prints[j].fileType \in VALID_FILE_TYPES
         /\ prints[j].copies >= 1
         /\ MatchesAllOrDigits(prints[j].pagesToPrint)
         /\ ~InvalidPagesToPrint(prints[j].pagesToPrint)

C11_Witness ==
  \E j \in Jobs :
    /\ pc[j] = "rejected"
    /\ hist[j].rejection = Some("Invalid page to print")
    /\ prints[j] = NoPrint

\* the booklet request has been through the reordering loop
Reordered ==
  \/ imp.stage \in {"reordered", "imposed", "saved"}
  \/ imp.stage = "rejected" /\ imp.pageCount # 0

\* the smallest multiple of 4 that is at least n
PaddedCount(n) == ((n + 3) \div 4) * 4

\* C12: booklet mode: a request whose supplied sheet range has
\* sheetsFrom > sheetsTo, a supplied bound below 1 (0 included), or sheetsTo
\* above the total sheet count fails, and no job record is created for it.
C12_BadSheetRangeCreatesNoJob ==
  LET from == imp.sheetsFrom
      to == imp.sheetsTo
      invalid ==
        \/ from # Absent /\ to # Absent /\ from.value > to.value
        \/ from # Absent /\ from.value < 1
        \/ to # Absent /\ to.value < 1
        \/ to # Absent /\ to.value > PaddedCount(imp.pages) \div 2
  IN /\ invalid => /\ imp.stage \notin {"imposed", "saved"}
                    /\ \A j \in Jobs : prints[j] = NoPrint /\ pc[j] = "none"
     /\ imp.stage = "rejected" =>
          /\ imp.error # Undefined
          /\ \A j \in Jobs : prints[j] = NoPrint /\ pc[j] = "none"

C12_Witness ==
  /\ imp.stage = "rejected"
  /\ imp.sheetsFrom = Num(3)
  /\ imp.sheetsTo = Num(2)
  /\ imp.error = Some("sheetsFrom must be less than or equal to sheetsTo")
  /\ \A j \in Jobs : prints[j] = NoPrint

\* C17: for a document of N >= 1 pages the booklet imposition adds
\* (4 - N mod 4) mod 4 blank pages, the padded count is the smallest
\* multiple of 4 that is at least N, the page order has as many entries as
\* the padded count; 4 pages get no padding and the order 3, 0, 1, 2.
C17_PaddingToMultipleOfFour ==
  /\ imp.pageCount # 0 =>
       /\ imp.pagesToAdd = (4 - (imp.pages % 4)) % 4
       /\ imp.pageCount = imp.pages + imp.pagesToAdd
       /\ imp.pageCount % 4 = 0
       /\ imp.pageCount >= imp.pages
       /\ imp.pageCount - 4 < imp.pages
  /\ Reordered => Len(imp.newPageOrder) = imp.pageCount
  /\ (Reordered /\ imp.pages = 4) =>
       /\ imp.pagesToAdd = 0
       /\ imp.newPageOrder = <<3, 0, 1, 2>>

C17_Witness ==
  /\ imp.stage = "reordered"
  /\ imp.pages = 4
  /\ imp.newPageOrder = <<3, 0, 1, 2>>

\* C18: for every page count N in 1..200 the page order of the booklet is
\* a permutation of 0..P-1 (P the padded count); 5 pages get 3 blank pages
\* and an order of 8 entries.
C18_OrderIsPermutation ==
  Reordered =>
    /\ Len(imp.newPageOrder) = imp.pageCount
    /\ {imp.newPageOrder[k] : k \in 1..Len(imp.newPageOrder)} = 0..(imp.pageCount - 1)
    /\ imp.pages = 5 => imp.pagesToAdd = 3 /\ Len(imp.newPageOrder) = 8

C18_Witness ==
  /\ imp.stage = "reordered"
  /\ imp.pages = 5
  /\ imp.pagesToAdd = 3
  /\ imp.newPageOrder = <<7, 0, 1, 6, 5, 2, 3, 4>>

\* C19: for a sheet range (from, to) that passed the checks, the pages put
\* out are the entries of the page order at the 0-based indices
\* (from-1)*4 .. min(to*4, P) - 1, in order; for P = 16, from = 2, to = 3
\* these are the entries at indices 4..11.
C19_SheetRangeSlice ==
  (/\ imp.stage \in {"imposed", "saved"}
   /\ Truthy(imp.sheetsFrom) \/ Truthy(imp.sheetsTo)) =>
    LET from == OrElse(imp.sheetsFrom, 1)
        to == OrElse(imp.sheetsTo, imp.pageCount \div 2)
        lo == (from - 1) * 4
        hi == Min2(to * 4, imp.pageCount)
    IN /\ Len(imp.finalPageOrder) = IF hi > lo THEN hi - lo ELSE 0
       /\ \A k \in 1..Len(imp.finalPageOrder) :
            imp.finalPageOrder[k] = imp.newPageOrder[lo + k]
       /\ (imp.pageCount = 16 /\ from = 2 /\ to = 3) =>
            imp.finalPageOrder = <<imp.newPageOrder[5], imp.newPageOrder[6],
                                   imp.newPageOrder[7], imp.newPageOrder[8],
                                   imp.newPageOrder[9], imp.newPageOrder[10],
                                   imp.newPageOrder[11], imp.newPageOrder[12]>>

C19_Witness ==
  /\ imp.stage = "imposed"
  /\ imp.pageCount = 16
  /\ imp.sheetsFrom = Num(2)
  /\ imp.sheetsTo = Num(3)
  /\ imp.finalPageOrder = <<13, 2, 3, 12, 11, 4, 5, 10>>

\* C13: the record createPrint returns is savedPrint as it was stored, in
\* status pending and with no handle, timestamps, error or page count;
\* savedPrint is never changed by what the dispatch does, and a call that
\* has returned stays returned with the same record.
C13_ReturnsPendingRecord ==
  [][\A j \in Jobs :
       /\ call'[j].result = "returned" =>
            /\ call'[j].savedPrint # NoPrint
            /\ call'[j].savedPrint.requestStatus = PENDING
            /\ call'[j].savedPrint.jobId = Undefined
            /\ call'[j].savedPrint.errorMessage = Undefined
            /\ call'[j].savedPrint.jobStartTime = Undefined
            /\ call'[j].savedPrint.jobEndTime = Undefined
       /\ call[j].savedPrint # NoPrint =>
            call'[j].savedPrint = call[j].savedPrint
       /\ call[j].result = "returned" => call'[j] = call[j]]_vars

\* createPrint returned the pending record although the dispatch it started
\* has failed the job in the store meanwhile
C13_Witness ==
  \E j \in Jobs :
    /\ call[j].result = "returned"
    /\ call[j].savedPrint.requestStatus = PENDING
    /\ call[j].savedPrint.fileType # "pdf"
    /\ prints[j] # NoPrint
    /\ prints[j].requestStatus = FAILED
    /\ hist[j].lpRuns > 0

\* the fields of a record the status updates write
StatusFields(rec) ==
  <<rec.requestStatus, rec.jobId, rec.jobStartTime, rec.jobEndTime,
    rec.errorMessage, rec.pagesPrinted>>

\* C14: the status, handle, timestamps, error message and pagesPrinted of an
\* existing job change only by an update that sendToCups or the poll loop
\* made.
C14_OnlyDispatchChangesStatus ==
  [][\A j \in Jobs :
       (prints[j] # NoPrint /\ StatusFields(prints'[j]) # StatusFields(prints[j])) =>
         \E w \in writes :
           /\ w.job = j /\ w.phase = "update" /\ w.kind \in DispatchKinds
           /\ prints'[j] = ApplySet(prints[j], w.data)]_vars

\* the attributes of a record given at submission
SubmissionFields ==
  {"employeeId", "employeeName", "fileName", "fileType", "printer",
   "paperSize", "copies", "isColor", "sides", "orientation", "pageLayout",
   "margins", "pagesToPrint", "pages"}

\* C15: no step, and so no updatePrintStatus call, changes a submission
\* attribute of an existing record; the record keeps all its fields.
C15_UpdateKeepsSubmission ==
  [][\A j \in Jobs :
       prints[j] # NoPrint =>
         /\ DOMAIN prints'[j] = DOMAIN prints[j]
         /\ \A k \in SubmissionFields : prints'[j][k] = prints[j][k]]_vars

\* a job submitted with two copies, in booklet layout, has been through the
\* sent-to-printer update and the poll update that completed it
C15_Witness ==
  \E j \in Jobs :
    /\ prints[j] # NoPrint
    /\ prints[j].requestStatus = COMPLETED
    /\ prints[j].jobId # Undefined
    /\ prints[j].jobStartTime # Undefined
    /\ prints[j].pagesPrinted > 0
    /\ prints[j].copies = 2
    /\ prints[j].pageLayout = BOOKLET
    /\ \A k \in SubmissionFields : prints[j][k] = call[j].savedPrint[k]

\* C16: a job whose broadcast threw, at creation or after a status update,
\* is in the store with its dispatch started all the same: its createPrint
\* call has not ended in failure with the job left undispatched.
C16_NotifierFailureKeepsDispatch ==
  \A j \in Jobs :
    (hist[j].notifierThrew /\ prints[j] # NoPrint) =>
      /\ pc[j] # "createFailed"
      /\ call[j].result # "threw"

\* C20: every record in the store with page layout booklet has orientation
\* landscape, in every state from its creation on; so has the record
\* createPrint holds and returns.
C20_BookletIsSideways ==
  \A j \in Jobs :
    /\ (prints[j] # NoPrint /\ prints[j].pageLayout = BOOKLET) =>
         prints[j].orientation = SIDEWAYS
    /\ (call[j].savedPrint # NoPrint /\ call[j].savedPrint.pageLayout = BOOKLET) =>
         call[j].savedPrint.orientation = SIDEWAYS

\* a booklet record, landscape, after the updates that completed it
C20_Witness ==
  \E j \in Jobs :
    /\ prints[j] # NoPrint
    /\ prints[j].pageLayout = BOOKLET
    /\ prints[j].orientation = SIDEWAYS
    /\ prints[j].requestStatus = COMPLETED
    /\ prints[j].jobEndTime # Undefined

\* the call of processJobStatus followed has computed its count for a job
\* state mapped to completed
Counted ==
  /\ recon.stage \in {"counted", "updated"}
  /\ recon.status = COMPLETED

\* C21: completed, pages-completed 0 and sheets-completed S > 0: the count
\* is S x pagesPerSheet x copies (1 for booklet, 2 for double-sided without
\* booklet, 1 otherwise) whatever the lpstat query returned.
C21_SheetsCounterBeforeLpstat ==
  (Counted /\ OrZero(recon.pagesCompleted) = 0 /\ OrZero(recon.sheetsCompleted) > 0) =>
    recon.calculatedPagesPrinted =
      OrZero(recon.sheetsCompleted)
        * (IF recon.print.pageLayout = BOOKLET THEN 1
           ELSE IF recon.print.sides = DOUBLE THEN 2 ELSE 1)
        * recon.print.copies

\* C22: completed, and every count source gives 0 or fails (pages, sheets
\* and impressions missing or 0, lpstat failing or giving 0): the update sent
\* is completed with pagesPrinted 0, an end time and no error message, and
\* no further poll is armed; the call always gets to its update.
C22_NoCountStillCompleted ==
  /\ (/\ Counted
      /\ OrZero(recon.pagesCompleted) = 0
      /\ OrZero(recon.sheetsCompleted) = 0
      /\ OrZero(recon.impressionsCompleted) = 0
      /\ recon.lpstat.kind # "stdout" \/ recon.lpstat.value = 0) =>
       /\ recon.calculatedPagesPrinted = 0
       /\ recon.stage = "updated" =>
            /\ recon.update[1].requestStatus = Some(COMPLETED)
            /\ recon.update[1].pagesPrinted = Some(0)
            /\ recon.update[1].errorMessage = Undefined
            /\ recon.update[1].jobEndTime = Some(Now)
            /\ ~recon.rearmed
  /\ recon.stage \in {"response", "lpstat", "counted", "updated"}
  /\ recon.stage # "updated" => ENABLED NextPages

\* lpstat wrote to stderr, with a number in its output, and no counter was
\* there: the job is completed with 0 pages
C22_Witness ==
  /\ recon.stage = "updated"
  /\ recon.jobState = "completed"
  /\ recon.pagesCompleted = Undefined
  /\ recon.sheetsCompleted = Some(0)
  /\ recon.impressionsCompleted = Undefined
  /\ recon.lpstat = [kind |-> "stderr", value |-> 2]
  /\ recon.update[1].pagesPrinted = Some(0)

\* C30: completed with pages-completed P > 0: the count is ceil(P/4) x
\* copies for a booklet and P x copies otherwise, the lpstat query is not
\* made, and the sheets and impressions counters make no difference; the
\* update carries that count.
C30_PagesCompletedFirst ==
  (Counted /\ OrZero(recon.pagesCompleted) > 0) =>
    LET P == OrZero(recon.pagesCompleted)
        expected == IF recon.print.pageLayout = BOOKLET
                    THEN ((P + 3) \div 4) * recon.print.copies
                    ELSE P * recon.print.copies
    IN /\ recon.calculatedPagesPrinted = expected
       /\ recon.lpstat = NoLpstat
       /\ recon.stage = "updated" => recon.update[1].pagesPrinted = Some(expected)

\* a booklet of 2 copies with 3 pages completed is counted as 2, although
\* the sheets and impressions counters are positive
C30_Witness ==
  /\ recon.stage = "updated"
  /\ recon.status = COMPLETED
  /\ recon.print.pageLayout = BOOKLET
  /\ recon.print.copies = 2
  /\ recon.pagesCompleted = Some(3)
  /\ recon.sheetsCompleted = Some(2)
  /\ recon.impressionsCompleted = Some(3)
  /\ recon.update[1].pagesPrinted = Some(2)

\* C23: CUPS service: when the answer to a status query is processed for a
\* job whose stored status is already terminal (completed or failed), the
\* step calls no updatePrintStatus (so the record stays as it is and nothing
\* is broadcast) and arms no timer.
C23_PollOnTerminalIsNoOp ==
  [][\A j \in Jobs :
       (/\ prints[j].requestStatus \in TerminalStatuses("cups")
        /\ queries'[j] < queries[j]) =>
         /\ writes' = writes
         /\ timers'[j] = timers[j]]_vars

\* C24: initializePrinterConnection makes at most 3 readiness checks, only
\* the last of them can have reported the printer ready, every failed check
\* but the third is followed by one delay, it ends with printerConnected
\* false exactly when all 3 checks failed, and it always ends.
C24_StartupCheckBounded ==
  /\ [](/\ Len(conn.checks) <= 3
        /\ conn.attempt <= 3
        /\ \A i \in 1..(Len(conn.checks) - 1) : ~IsPrinterAvailable(conn.checks[i])
        /\ conn.stage = "checking" => conn.waits = Len(conn.checks)
        /\ conn.stage = "done" =>
             /\ Len(conn.checks) >= 1
             /\ conn.printerConnected = IsPrinterAvailable(conn.checks[Len(conn.checks)])
             /\ conn.printerConnected => conn.waits = Len(conn.checks) - 1
             /\ ~conn.printerConnected =>
                  /\ Len(conn.checks) = 3
                  /\ conn.waits = 2
                  /\ \A i \in 1..3 : ~IsPrinterAvailable(conn.checks[i]))
  /\ <>(conn.stage = "done")

\* the printer was found ready at the second check, after one delay
C24_Witness ==
  /\ conn.stage = "done"
  /\ conn.printerConnected
  /\ Len(conn.checks) = 2
  /\ conn.waits = 1
  /\ conn.checks[1].kind = "err"

\* C25: CUPS service: the submit command runs at most once per job and
\* monitorPrintJob is started at most once; once the stored status of a job
\* is failed, no step submits it, moves its dispatch on, sends a status
\* query for it or arms a timer for it.
C25_SubmittedAtMostOnce ==
  [][\A j \in Jobs :
       /\ hist'[j].lpRuns <= 1
       /\ hist'[j].monitors <= 1
       /\ prints[j].requestStatus = FAILED =>
            /\ hist'[j].lpRuns = hist[j].lpRuns
            /\ hist'[j].monitors = hist[j].monitors
            /\ pc'[j] = pc[j]
            /\ queries'[j] <= queries[j]
            /\ timers'[j] <= timers[j]]_vars

\* the submit command ran once and failed; the job is failed and nothing
\* is pending for it
C25_Witness ==
  \E j \in Jobs :
    /\ pc[j] = "submitFailed"
    /\ hist[j].lpRuns = 1
    /\ prints[j].requestStatus = FAILED
    /\ Quiet(j)

\* C26: a record has a jobId only if the submit command of its job ran,
\* succeeded and gave a job id, which is the jobId stored and the one
\* polled; before the submission and after a failed readiness check,
\* conversion or submission the record has none.
C26_HandleOnlyAfterSubmit ==
  \A j \in Jobs :
    /\ (prints[j] # NoPrint /\ prints[j].jobId # Undefined) =>
         /\ hist[j].lpRuns = 1
         /\ pc[j] = "monitoring"
         /\ handle[j] # Undefined
         /\ prints[j].jobId = handle[j]
         /\ \E n \in 1..lpJobs : handle[j] = Some(ParsedJobId(n))
    /\ (prints[j] # NoPrint /\ pc[j] # "monitoring") =>
         /\ prints[j].jobId = Undefined
         /\ handle[j] = Undefined

\* C27: two uploads converted at the same time do not touch each other's
\* temporary files: the document an upload reads back is its own, and no
\* upload fails for a file another one removed, also when they have the
\* same file name.
C27_UploadsShareNoFiles ==
  \A u \in Uploads :
    /\ tmp.buffer[u] \in {"none", u}
    /\ tmp.stage[u] # "failed"
    /\ tmp.stage[u] \in {"written", "converted"} => tmp.input[TempPath(u)] = u
    /\ tmp.stage[u] = "converted" => tmp.pdf[TempPath(u)] = u

\* C28: CUPS service: the lp command of a booklet job is given
\* sides=two-sided-short-edge whatever the job's sides setting; a job that is
\* no booklet is given two-sided-long-edge when double-sided and one-sided
\* when single-sided.
C28_BookletIsShortEdge ==
  \A j \in Jobs :
    hist[j].lpSides # Undefined =>
      hist[j].lpSides =
        Some(IF prints[j].pageLayout = BOOKLET THEN "two-sided-short-edge"
             ELSE IF prints[j].sides = DOUBLE THEN "two-sided-long-edge"
             ELSE "one-sided")

\* C29: the booklet imposition (padding, reordering, sheet filter) is run
\* only on a document of at least 1 page, and every record createPrint has
\* saved has a page count of at least 1.
C29_NoZeroPageJob ==
  /\ imp.stage \in {"padded", "reordered", "imposed", "saved"} => imp.pages >= 1
  /\ \A j \in Jobs : prints[j] # NoPrint => prints[j].pages >= 1

\* C31: CUPS service, every status query answered and every store write
\* succeeding, the backend at some time reporting a terminal job state: a
\* job that was submitted successfully has its stored status become the
\* terminal status a poll reported (at some time: that it stays is not
\* stated here), and from some time on no timer is armed, no status query
\* is in flight and no update is in progress for it.
C31_PollingEndsTerminal ==
  \A j \in Jobs :
    /\ (hist[j].monitors > 0 /\ ~hist[j].termPolled) ~>
         (hist[j].termPolled /\ prints[j].requestStatus \in TerminalStatuses("cups"))
    /\ (hist[j].monitors > 0) ~> [](Quiet(j) /\ hist[j].termPolled)

\* a submitted job the backend aborted: failed is stored, the loop has ended
C31_Witness ==
  \E j \in Jobs :
    /\ hist[j].monitors = 1
    /\ hist[j].termPolled
    /\ prints[j].requestStatus = FAILED
    /\ prints[j].jobId = handle[j]
    /\ Quiet(j)

\* C32: CUPS service with a backend that answers every status query of a
\* job with a state that is not terminal, and no query failing: every poll
\* result re-arms the loop, the stored status of the polled job never is
\* completed or failed, and status queries for it are sent again and again
\* without end (no limit, timeout or cancellation ends the loop).
C32_PollsWithoutEnd ==
  \A j \in Jobs :
    /\ [](\A w \in WritesOf(j) : w.kind = "poll" => w.then = "rearm")
    /\ [](hist[j].monitors > 0 =>
            prints[j].requestStatus \notin TerminalStatuses("cups"))
    /\ (hist[j].monitors > 0) ~> (queries[j] > 0)
    /\ (hist[j].monitors > 0) ~> (timers[j] > 0)

\* a poll's update has been stored and the next status query is in flight
C32_Witness ==
  \E j \in Jobs :
    /\ hist[j].pollApplied
    /\ prints[j].requestStatus = SENT_TO_PRINTER
    /\ WritesOf(j) = {}
    /\ queries[j] = 1

\* C33: Windows-spooler service of part_005: a poll answered with the
\* backend state paused makes an update to Held that carries no end time
\* and no error message and re-arms the poll; when that update is applied the
\* stored status is Held and the record's end time and error message are
\* left as they were; when the update returns, a timer is armed.  A poll's
\* update applied to a record that is Held stores the status of that poll,
\* whatever it is (Processing, Completed, Aborted, Canceled).
C33_HeldIsNotTerminal ==
  [][variant = "part_005" =>
       /\ \A w \in writes' \ writes :
            (w.kind = "poll" /\ w.native = "paused") =>
              /\ w.data.requestStatus = Some(HELD)
              /\ w.data.jobEndTime = Undefined
              /\ w.data.errorMessage = Undefined
              /\ w.then = "rearm"
       /\ \A w \in writes :
            (/\ w.kind = "poll"
             /\ w.phase = "update"
             /\ [w EXCEPT !.phase = "find"] \in writes') =>
              /\ w.native = "paused" =>
                   /\ prints'[w.job].requestStatus = HELD
                   /\ prints'[w.job].jobEndTime = prints[w.job].jobEndTime
                   /\ prints'[w.job].errorMessage = prints[w.job].errorMessage
              /\ prints[w.job].requestStatus = HELD =>
                   prints'[w.job].requestStatus = WinMapJobState(w.native)
       /\ \A w \in writes \ writes' :
            (w.kind = "poll" /\ w.native = "paused" /\ w.phase = "find") =>
              timers'[w.job] = timers[w.job] + 1]_vars

\* Held is stored and the next poll found the job printing again: its
\* update to Processing is about to be applied
C33_Witness ==
  \E j \in Jobs :
    /\ variant = "part_005"
    /\ prints[j].requestStatus = HELD
    /\ prints[j].jobEndTime = Undefined
    /\ prints[j].errorMessage = Undefined
    /\ \E w \in WritesOf(j) :
         /\ w.kind = "poll"
         /\ w.phase = "update"
         /\ w.data.requestStatus = Some(PROCESSING)

\* C34: CUPS service: for each job, the armed poll timers, the status
\* queries in flight and the poll results whose update is in progress are
\* together never more than one.
C34_OnePollOutstanding ==
  \A j \in Jobs :
    timers[j] + queries[j] + Cardinality({w \in WritesOf(j) : w.kind = "poll"}) <= 1

\* between two polls: the first poll's update has returned and armed the
\* one timer of the job
C34_Witness ==
  \E j \in Jobs :
    /\ hist[j].pollApplied
    /\ timers[j] = 1
    /\ queries[j] = 0
    /\ {w \in WritesOf(j) : w.kind = "poll"} = {}

\* C35: CUPS service: a job whose record exists and for which nothing is in
\* progress (createPrint and the dispatch have ended, no timer is armed, no
\* status query and no update is in flight) has a terminal stored status
\* (completed or failed).
C35_NoOrphanedJob ==
  \A j \in Jobs :
    (/\ prints[j] # NoPrint
     /\ pc[j] \notin {"saved", "checkCups", "checkPrinter", "convert", "lp"}
     /\ Quiet(j)) =>
      prints[j].requestStatus \in TerminalStatuses("cups")

\* C36: CUPS service: when createPrint has thrown to its caller, the job
\* store holds no record of that submission and no dispatch was started
\* for it (no readiness check, no submit command, no update, no poll).
C36_CreatePrintAllOrNothing ==
  \A j \in Jobs :
    call[j].result = "threw" =>
      /\ prints[j] = NoPrint
      /\ pc[j] \in {"rejected", "createFailed"}
      /\ hist[j].cupsChecks = 0
      /\ hist[j].lpRuns = 0
      /\ Quiet(j)

\* C37: CUPS service: once the stored status of a job is completed or
\* failed, no step of the dispatch and reconciliation path stores a status
\* for it that is not terminal.
C37_TerminalIsStable ==
  [][\A j \in Jobs :
       prints[j].requestStatus \in TerminalStatuses("cups") =>
         prints'[j].requestStatus \in TerminalStatuses("cups")]_vars

\* C38: for every sheet range (from, to) that passed the checks of
\* createPrint, the pages put out are exactly 4 * (to - from + 1) entries of
\* the page order, and at least one.
C38_AcceptedRangeIsFull ==
  (/\ imp.stage \in {"imposed", "saved"}
   /\ Truthy(imp.sheetsFrom) \/ Truthy(imp.sheetsTo)) =>
    LET from == OrElse(imp.sheetsFrom, 1)
        to == OrElse(imp.sheetsTo, TotalSheets(imp.pageCount))
    IN /\ Len(imp.finalPageOrder) > 0
       /\ Len(imp.finalPageOrder) = 4 * (to - from + 1)

\* C39: Windows-spooler service of part_003: the job id a sendToPrinter
\* call starts monitorPrintJob with (the id stored for the job and polled)
\* is the JobId the spooler gave to the job that this call's print command
\* created.
C39_HandleIsOwnJob ==
  \A u \in Submissions :
    spool.stage[u] = "monitoring" => spool.jobId[u] = spool.created[u]

====
